---- MODULE Spec2Model ----
(***************************************************************************)
(* Model of the scriptura Discord bot: the api.bible client and query      *)
(* resolver (helpers/apibible_request.js), its content flattener, and the  *)
(* search pager of the /verse command (commands/verses/verse.js).          *)
(*                                                                         *)
(* JavaScript strings that the code inspects character by character are    *)
(* sequences of one-character strings; strings that are only compared or   *)
(* passed on are TLA+ strings.  An optional value (undefined / null) is a  *)
(* set with at most one element: {} is "absent", {v} is "present".         *)
(***************************************************************************)
EXTENDS Integers, Sequences, FiniteSets, TLC

(***************************************************************************)
(* Characters and the regular expressions of passageContentToText          *)
(***************************************************************************)
Pilcrow == "PILCROW"
Digits == {"0", "1", "2", "3", "4", "5", "6", "7", "8", "9"}
Blanks == {" ", "\t"}
\* the characters \s matches (and String.prototype.trim removes): the ASCII
\* white space, the line and paragraph separators, the no-break space, the
\* byte order mark and the Unicode space separators.  A character without
\* an escape in a string is written by its code point
LineTerminators == {"\n", "\r", "U+2028", "U+2029"}
SpaceSeparators ==
  {" ", "U+00A0", "U+1680", "U+2000", "U+2001", "U+2002", "U+2003", "U+2004",
   "U+2005", "U+2006", "U+2007", "U+2008", "U+2009", "U+200A", "U+202F",
   "U+205F", "U+3000"}
Spaces ==
  {"\t", "U+000B", "\f", "U+FEFF"} \cup LineTerminators \cup SpaceSeparators

IsSpace(c) == c \in Spaces
IsDigit(c) == c \in Digits

RECURSIVE DropWhile(_, _)
\* the rest of s after its longest prefix of characters in set cs
DropWhile(s, cs) ==
  IF s # <<>> /\ Head(s) \in cs THEN DropWhile(Tail(s), cs) ELSE s

RECURSIVE DropWhileEnd(_, _)
DropWhileEnd(s, cs) ==
  IF s # <<>> /\ s[Len(s)] \in cs
  THEN DropWhileEnd(SubSeq(s, 1, Len(s) - 1), cs) ELSE s

\* String.prototype.trim
Trim(s) == DropWhileEnd(DropWhile(s, Spaces), Spaces)

\* t.replace(/^\s*¶\s*/, "")
StripPilcrow(t) ==
  LET a == DropWhile(t, Spaces)
  IN IF a # <<>> /\ Head(a) = Pilcrow THEN DropWhile(Tail(a), Spaces) ELSE t

\* t.replace(/^\s*\d+\s*/, "")
StripLeadingNumber(t) ==
  LET a == DropWhile(t, Spaces)
  IN IF a # <<>> /\ IsDigit(Head(a))
     THEN DropWhile(DropWhile(a, Digits), Spaces) ELSE t

RECURSIVE CollapseBlanks(_)
\* s.replace(/[ \t]{2,}/g, " ")
CollapseBlanks(s) ==
  IF s = <<>> THEN <<>>
  ELSE IF Head(s) \in Blanks /\ Len(s) >= 2 /\ s[2] \in Blanks
       THEN <<" ">> \o CollapseBlanks(DropWhile(s, Blanks))
       ELSE <<Head(s)>> \o CollapseBlanks(Tail(s))

RECURSIVE CollapseNewlines(_)
\* s.replace(/\s*\n\s*/g, "\n"): a whitespace run that holds a newline
CollapseNewlines(s) ==
  IF s = <<>> THEN <<>>
  ELSE IF IsSpace(Head(s))
       THEN LET rest == DropWhile(s, Spaces)
                run  == SubSeq(s, 1, Len(s) - Len(rest))
            IN IF \E i \in 1..Len(run) : run[i] = "\n"
               THEN <<"\n">> \o CollapseNewlines(rest)
               ELSE run \o CollapseNewlines(rest)
       ELSE <<Head(s)>> \o CollapseNewlines(Tail(s))

RECURSIVE SpaceBeforeNewlines(_)
\* s.replace(/\n/g, " \n")
SpaceBeforeNewlines(s) ==
  IF s = <<>> THEN <<>>
  ELSE IF Head(s) = "\n"
       THEN <<" ", "\n">> \o SpaceBeforeNewlines(Tail(s))
       ELSE <<Head(s)>> \o SpaceBeforeNewlines(Tail(s))

RECURSIVE Join(_)
\* chunks.join("")
Join(chunks) ==
  IF chunks = <<>> THEN <<>> ELSE Head(chunks) \o Join(Tail(chunks))

(***************************************************************************)
(* passageContentToText: the walk over the content tree                    *)
(* A walk state is [chunks, strip]: the chunks array and the               *)
(* stripLeadingVerseNumber flag.                                           *)
(***************************************************************************)
ensureSpaceBeforeNextChunk(st) ==
  IF st.chunks = <<>> THEN st
  ELSE LET n == Len(st.chunks)
           last == st.chunks[n]
       IN IF last # <<>> /\ ~IsSpace(last[Len(last)])
          THEN [st EXCEPT !.chunks[n] = last \o <<" ">>]
          ELSE st

\* mutant of ensureNewlineBeforeNextChunk: a marker never starts a line
ensureNewlineBeforeNextChunk_None(st) == st

ensureNewlineBeforeNextChunk(st) ==
  IF st.chunks = <<>> THEN st
  ELSE LET n == Len(st.chunks)
           last == st.chunks[n]
       IN IF last # <<>> /\ last[Len(last)] # "\n"
          THEN [st EXCEPT !.chunks[n] = last \o <<"\n">>]
          ELSE st

\* mutant of pushText: the leading number is never stripped
pushText_NoStrip(st, t) ==
  IF t = <<>> THEN st
  ELSE LET cleaned == StripPilcrow(t)
       IN [chunks |-> IF cleaned # <<>> THEN Append(st.chunks, cleaned)
                      ELSE st.chunks,
           strip |-> FALSE]

pushText(st, t) ==
  IF t = <<>> THEN st
  ELSE LET c1 == StripPilcrow(t)
           cleaned == IF st.strip THEN StripLeadingNumber(c1) ELSE c1
       IN [chunks |-> IF cleaned # <<>> THEN Append(st.chunks, cleaned)
                      ELSE st.chunks,
           strip |-> FALSE]

\* the chunk a verse marker emits: `[${node.attrs.number}] `
VerseLabel(number) == <<"[">> \o number \o <<"]", " ">>

RECURSIVE walk(_, _, _)
RECURSIVE walkItems(_, _, _)
\* walk(node) for a single node; lbl is the lineByLine option
walk(node, st, lbl) ==
  IF node.type = "text" THEN pushText(st, node.text)
  ELSE IF node.type = "tag"
  THEN LET s1 == IF lbl /\ node.name = "para" /\ node.attrs.vid # <<>>
                 THEN ensureSpaceBeforeNextChunk(st) ELSE st
           s2 == IF node.name = "verse" /\ node.attrs.number # <<>>
                 THEN LET s2a == IF lbl THEN ensureNewlineBeforeNextChunk(s1)
                                 ELSE ensureSpaceBeforeNextChunk(s1)
                          s2b == pushText(s2a, VerseLabel(node.attrs.number))
                      IN [s2b EXCEPT !.strip = TRUE]
                 ELSE s1
       IN walkItems(node.items, s2, lbl)
  ELSE st

\* walk(array): the nodes in order
walkItems(nodes, st, lbl) ==
  IF nodes = <<>> THEN st
  ELSE walkItems(Tail(nodes), walk(Head(nodes), st, lbl), lbl)

\* content is {} (null / undefined) or {nodes} with nodes the content array
passageContentToText(content, lineByLine) ==
  IF content = {} THEN <<>>
  ELSE LET nodes == CHOOSE n \in content : TRUE
           st == walkItems(nodes, [chunks |-> <<>>, strip |-> FALSE], lineByLine)
           joined == CollapseBlanks(Join(st.chunks))
           text == Trim(IF lineByLine THEN CollapseNewlines(joined) ELSE joined)
           text2 == IF lineByLine /\ text # <<>>
                    THEN SpaceBeforeNewlines(text) ELSE text
       IN IF text2 # <<>> THEN text2 \o <<" ">> ELSE <<>>

(***************************************************************************)
(* /^psalms?\b/i                                                           *)
(***************************************************************************)
UpperLetters == <<"A", "B", "C", "D", "E", "F", "G", "H", "I", "J", "K", "L",
                  "M", "N", "O", "P", "Q", "R", "S", "T", "U", "V", "W", "X",
                  "Y", "Z">>
LowerLetters == <<"a", "b", "c", "d", "e", "f", "g", "h", "i", "j", "k", "l",
                  "m", "n", "o", "p", "q", "r", "s", "t", "u", "v", "w", "x",
                  "y", "z">>
ToLower(c) ==
  IF \E i \in 1..Len(UpperLetters) : UpperLetters[i] = c
  THEN LowerLetters[CHOOSE i \in 1..Len(UpperLetters) : UpperLetters[i] = c]
  ELSE c
\* the characters \w matches
WordChars ==
  {UpperLetters[i] : i \in 1..Len(UpperLetters)} \cup
  {LowerLetters[i] : i \in 1..Len(LowerLetters)} \cup Digits \cup {"_"}

\* \b right after a word character: the end of the string or a non-word char
BoundaryAt(s) == s = <<>> \/ Head(s) \notin WordChars

\* mutant of IsPsalm: no word boundary after the word
IsPsalm_NoBoundary(ref) ==
  /\ Len(ref) >= 5
  /\ [i \in 1..5 |-> ToLower(ref[i])] = <<"p", "s", "a", "l", "m">>

\* /^psalms?\b/i.test(ref)
IsPsalm(ref) ==
  /\ Len(ref) >= 5
  /\ [i \in 1..5 |-> ToLower(ref[i])] = <<"p", "s", "a", "l", "m">>
  /\ LET rest == SubSeq(ref, 6, Len(ref))
     IN \/ BoundaryAt(rest)
        \/ rest # <<>> /\ ToLower(Head(rest)) = "s" /\ BoundaryAt(Tail(rest))

(***************************************************************************)
(* Optional values: x ?? y, and the value of a present optional            *)
(***************************************************************************)
Some(x) == {x}
None == {}
The(o) == CHOOSE v \in o : TRUE
\* o1 ?? o2 on optionals
OrElse(o1, o2) == IF o1 # {} THEN o1 ELSE o2

(***************************************************************************)
(* api.bible client                                                        *)
(***************************************************************************)
REQUEST_TIMEOUT_MS == 10000
DEFAULT_SORT == "relevance"

buildError(message, status, raw) ==
  [error |-> TRUE, message |-> message, status |-> status, raw |-> raw]

\* mutant of apiBibleFetchCheck: the credential is not checked
apiBibleFetchCheck_NoKeyCheck(key) == None

\* apiBibleFetch before the request: the credential check
apiBibleFetchCheck(key) ==
  IF ~key THEN Some(buildError("Missing API_BIBLE_KEY env var.", None, None))
  ELSE None

\* mutant of apiBibleFetch: res.ok is not checked
apiBibleFetch_NoOkCheck(out, timeoutMs) ==
  IF out.kind = "response"
  THEN [error |-> FALSE,
        data |-> IF out.ok THEN out.json ELSE None]
  ELSE IF out.kind = "abort"
  THEN buildError("api.bible request timed out after "
                    \o ToString(timeoutMs) \o "ms", None, None)
  ELSE buildError(IF out.message # "" THEN out.message
                  ELSE "Network error while calling api.bible", None, None)

\* apiBibleFetch after the request: the value it returns for what fetch did.
\* out.kind is "abort" (fetch threw AbortError), "throw" (fetch threw
\* another error) or "response" (an HTTP response with ok, status, json).
apiBibleFetch(out, timeoutMs) ==
  IF out.kind = "response"
  THEN IF ~out.ok
       THEN LET apiMessage ==
                  IF out.json = {} THEN ""
                  ELSE IF The(out.json).message # ""
                       THEN The(out.json).message ELSE The(out.json).error
            IN buildError(
                 IF apiMessage # "" THEN apiMessage
                 ELSE "api.bible request failed (" \o ToString(out.status) \o ")",
                 Some(out.status), out.json)
       ELSE [error |-> FALSE, data |-> out.json]
  ELSE IF out.kind = "abort"
  THEN buildError("api.bible request timed out after "
                    \o ToString(timeoutMs) \o "ms", None, None)
  ELSE buildError(IF out.message # "" THEN out.message
                  ELSE "Network error while calling api.bible", None, None)

\* apiBibleSearch up to the request: a local Failure, or nothing
apiBibleSearchCheck(key, bibleId, query) ==
  IF bibleId = "" THEN Some(buildError("Missing bibleId.", None, None))
  ELSE IF query = <<>> THEN Some(buildError("Missing query.", None, None))
  ELSE apiBibleFetchCheck(key)

\* the request apiBibleSearch issues
apiBibleSearchRequest(bibleId, query, sort, limit, offset) ==
  [path |-> "search", bibleId |-> bibleId, query |-> query, sort |-> sort,
   limit |-> limit, offset |-> offset]

\* apiBibleGetPassage up to the request
apiBibleGetPassageCheck(key, bibleId, passageId) ==
  IF bibleId = "" THEN Some(buildError("Missing bibleId.", None, None))
  ELSE IF passageId = "" THEN Some(buildError("Missing passageId.", None, None))
  ELSE apiBibleFetchCheck(key)

\* the request apiBibleGetPassage issues
apiBibleGetPassageRequest(bibleId, passageId, o) ==
  [path |-> "passages", bibleId |-> bibleId, passageId |-> passageId,
   contentType |-> o.contentType, includeNotes |-> o.includeNotes,
   includeTitles |-> o.includeTitles,
   includeChapterNumbers |-> o.includeChapterNumbers,
   includeVerseNumbers |-> o.includeVerseNumbers,
   includeVerseSpans |-> o.includeVerseSpans, useOrgId |-> o.useOrgId]

(***************************************************************************)
(* apiBibleResolveQuery                                                    *)
(***************************************************************************)
\* passageData = passageRes.data?.data ; searchRes.data?.data likewise
DataOf(res) == IF res.data = {} THEN None ELSE The(res.data).data

\* the options apiBibleResolveQuery passes to apiBibleGetPassage
PassageOptions(in) ==
  [contentType |-> "json", includeNotes |-> in.includeNotes,
   includeTitles |-> in.includeTitles, includeChapterNumbers |-> FALSE,
   includeVerseNumbers |-> in.includeVerseNumbers,
   includeVerseSpans |-> FALSE, useOrgId |-> FALSE]

\* result.raw is set only when includeRaw
WithRaw(in, result, raw) ==
  IF in.includeRaw THEN result @@ [raw |-> raw] ELSE result

\* lineByLine === 'auto' ? isPsalm : lineByLine === 'on' ? true : false
UseLineByLine(lineByLine, isPsalm) ==
  IF lineByLine = "auto" THEN isPsalm
  ELSE IF lineByLine = "on" THEN TRUE ELSE FALSE

\* the 'passage' result built after a successful passage request
PassageResult(in, passageHit, passageRes) ==
  LET passageData == DataOf(passageRes)
      referenceCandidate ==
        IF passageData # {} /\ The(passageData).reference # {}
        THEN The(The(passageData).reference)
        ELSE IF passageHit.reference # {} THEN The(passageHit.reference)
        ELSE in.query
      useLineByLine == UseLineByLine(in.lineByLine, IsPsalm(referenceCandidate))
      content == IF passageData = {} THEN None ELSE The(passageData).content
      text == passageContentToText(content, useLineByLine)
  IN WithRaw(in,
       [error |-> FALSE, kind |-> "passage", query |-> in.query,
        id |-> IF passageData # {} /\ The(passageData).id # {}
               THEN The(The(passageData).id) ELSE passageHit.id,
        reference |-> referenceCandidate,
        verseCount |-> IF passageData = {} THEN passageHit.verseCount
                       ELSE OrElse(The(passageData).verseCount,
                                   passageHit.verseCount),
        text |-> text,
        copyright |-> IF passageData = {} THEN passageHit.copyright
                      ELSE OrElse(The(passageData).copyright,
                                  passageHit.copyright)],
       passageRes.data)

\* mutant of VerseEntry: the hit is passed on whole
VerseEntry_Whole(v) == v

\* v => ({ id: v.id, reference: v.reference, text: v.text })
VerseEntry(v) == [id |-> v.id, reference |-> v.reference, text |-> v.text]

\* the 'search' result
SearchResult(in, searchRes) ==
  LET data == The(DataOf(searchRes))
  IN WithRaw(in,
       [error |-> FALSE, kind |-> "search",
        query |-> IF data.query # {} THEN The(data.query) ELSE in.query,
        total |-> data.total, limit |-> data.limit, offset |-> data.offset,
        verses |-> [i \in 1..Len(data.verses) |-> VerseEntry(data.verses[i])]],
       searchRes.data)

\* mutant of EmptyResult: the empty outcome carries an (empty) verses list
EmptyResult_WithVerses(in, searchRes) ==
  WithRaw(in, [error |-> FALSE, kind |-> "empty", query |-> in.query,
               verses |-> <<>>],
          searchRes.data)

\* the 'empty' result
EmptyResult(in, searchRes) ==
  WithRaw(in, [error |-> FALSE, kind |-> "empty", query |-> in.query],
          searchRes.data)

\* mutant of HasPassages: verse hits take precedence over passage hits
HasPassages_VersesFirst(searchRes) ==
  /\ DataOf(searchRes) # {}
  /\ Len(The(DataOf(searchRes)).passages) > 0
  /\ Len(The(DataOf(searchRes)).verses) = 0

\* Array.isArray(data?.passages) && data.passages.length > 0
HasPassages(searchRes) ==
  DataOf(searchRes) # {} /\ Len(The(DataOf(searchRes)).passages) > 0
\* Array.isArray(data?.verses) && data.verses.length > 0
HasVerses(searchRes) ==
  DataOf(searchRes) # {} /\ Len(The(DataOf(searchRes)).verses) > 0

(***************************************************************************)
(* What the api.bible service may answer (the inputs of the model)         *)
(***************************************************************************)
MaxPassageHits == 2
MaxVerseHits == 2
CustomTimeoutMs == 2500

\* content tree nodes
TextNode(t) == [type |-> "text", text |-> t]
VerseNode(number) ==
  [type |-> "tag", name |-> "verse",
   attrs |-> [number |-> number, vid |-> <<>>], items |-> <<>>]
ParaNode(vid, items) ==
  [type |-> "tag", name |-> "para",
   attrs |-> [number |-> <<>>, vid |-> vid], items |-> items]

RefPsalm == <<"P", "s", "a", "l", "m", " ", "1">>
RefJohn == <<"J", "n", " ", "3">>

Contents ==
  { None,
    Some(<<>>),
    Some(<< ParaNode(<<>>, << VerseNode(<<"3">>),
                             TextNode(<<"3", "G", "o", "d">>) >>) >>),
    Some(<< ParaNode(<<"v", "1">>, << VerseNode(<<"1">>), TextNode(<<"a">>) >>),
            ParaNode(<<"v", "2">>, << VerseNode(<<"2">>),
                                      TextNode(<<"2", " ", "b">>) >>) >>) }

\* bodies of non-2xx answers
ErrorBodies ==
  { None,
    Some([message |-> "Not found", error |-> ""]),
    Some([message |-> "", error |-> "Unauthorized"]) }

\* what fetch does when the call fails
FailedOutcomes ==
  {[kind |-> "abort"]}
  \cup {[kind |-> "throw", message |-> m] : m \in {"", "ECONNRESET"}}
  \cup {[kind |-> "response", ok |-> FALSE, status |-> st, json |-> b] :
          st \in {404, 500}, b \in ErrorBodies}

OkOutcome(json) == [kind |-> "response", ok |-> TRUE, status |-> 200, json |-> json]

PassageHits ==
  { [id |-> "", reference |-> Some(RefJohn), verseCount |-> None,
     copyright |-> None],
    [id |-> "PSA.1", reference |-> Some(RefPsalm), verseCount |-> Some(6),
     copyright |-> Some("PD")],
    [id |-> "JHN.3", reference |-> None, verseCount |-> None,
     copyright |-> None] }

VerseHits ==
  { [id |-> "JHN.3.16", reference |-> "John 3:16",
     text |-> <<" ", "F", "o", "r", " ", "G", "o", "d", "\n">>,
     bookId |-> "JHN"],
    [id |-> "ROM.8.1", reference |-> "", text |-> <<>>, bookId |-> "ROM"] }

\* the sequences over S of length at most n
RECURSIVE SeqsUpTo(_, _)
SeqsUpTo(S, n) ==
  IF n = 0 THEN {<<>>}
  ELSE LET shorter == SeqsUpTo(S, n - 1)
       IN shorter \cup {Append(q, x) : q \in {r \in shorter : Len(r) = n - 1},
                                       x \in S}

SearchMetas ==
  { [total |-> None, limit |-> None, offset |-> None, query |-> None],
    [total |-> Some(23), limit |-> Some(10), offset |-> Some(0),
     query |-> Some(RefJohn)] }

SearchBodies ==
  { None, Some([data |-> None]) }
  \cup { Some([data |-> Some([passages |-> ps, verses |-> vs,
                              total |-> m.total, limit |-> m.limit,
                              offset |-> m.offset, query |-> m.query])]) :
           ps \in SeqsUpTo(PassageHits, MaxPassageHits),
           vs \in SeqsUpTo(VerseHits, MaxVerseHits),
           m \in SearchMetas }

PassageBodies ==
  { None, Some([data |-> None]) }
  \cup { Some([data |-> Some([id |-> m.id, reference |-> ref, content |-> c,
                              verseCount |-> m.verseCount,
                              copyright |-> m.copyright])]) :
           ref \in {None, Some(RefPsalm), Some(RefJohn)},
           c \in Contents,
           m \in { [id |-> None, verseCount |-> None, copyright |-> None],
                   [id |-> Some("JHN.3.1"), verseCount |-> Some(1),
                    copyright |-> Some("(c)")] } }

SearchOutcomes == FailedOutcomes \cup {OkOutcome(b) : b \in SearchBodies}
PassageOutcomes == FailedOutcomes \cup {OkOutcome(b) : b \in PassageBodies}

\* the calls of apiBibleResolveQuery the model makes
ResolveInputs ==
  [bibleId : {"", "de4e12af7f28f599-01"},
   query : {<<>>, RefJohn, RefPsalm},
   includeRaw : BOOLEAN,
   lineByLine : {"auto", "on", "off"},
   includeNotes : {FALSE},
   includeTitles : BOOLEAN,
   includeVerseNumbers : {TRUE},
   timeoutMs : {None, Some(CustomTimeoutMs)}]

(***************************************************************************)
(* /verse: error notices, result embeds and the search pager               *)
(***************************************************************************)
MAX_SEARCH_FIELDS == 10
PAGINATION_TIMEOUT_MS == 2 * 60 * 1000
EPHEMERAL_REPLY == [flags |-> "Ephemeral"]
EmbedValueLimit == 1024

Max(a, b) == IF a >= b THEN a ELSE b
Min(a, b) == IF a <= b THEN a ELSE b
\* Math.ceil(a / b) for a >= 0, b > 0
CeilDiv(a, b) == (a + b - 1) \div b

\* buildErrorMessage: the content and the detail items of the "-# " line;
\* the rendered text is content, or content \n-# items joined by " • "
buildErrorMessage(content, details) ==
  [content |-> content,
   details |->
     (IF details.query # <<>> THEN <<[label |-> "Query", value |-> details.query]>>
      ELSE <<>>)
     \o (IF details.translation # ""
         THEN <<[label |-> "Translation", value |-> details.translation]>>
         ELSE <<>>)
     \o (IF details.hint # "" THEN <<[label |-> "", value |-> details.hint]>>
         ELSE <<>>)]

\* the payload replyError passes to interaction.reply
replyError(content, details) ==
  [content |-> buildErrorMessage(content, details)] @@ EPHEMERAL_REPLY

formatRange(start, count) ==
  IF count = 0 THEN "0"
  ELSE ToString(start + 1) \o "-" \o ToString(start + count)

\* the one-character ellipsis appended to a cut value
Ellipsis == "ELLIPSIS"

\* one embed field of a search hit
EmbedField(verse) ==
  LET value == Trim(verse.text)
  IN [name |-> IF verse.reference # "" THEN verse.reference ELSE "Result",
      value |-> IF Len(value) > EmbedValueLimit
                THEN SubSeq(value, 1, EmbedValueLimit - 3) \o <<Ellipsis>>
                ELSE IF value # <<>> THEN value
                ELSE <<"(", "n", "o", " ", "t", "e", "x", "t", ")">>]

\* title stands for `Search results: "${query}"`, description for
\* `Translation: **${translation}**`; the footer's middle dot is written "-"
buildSearchResultsEmbed(data, translation, page, pageSize, totalPages) ==
  LET start == page * pageSize
      pageVerses == data.verses
  IN [title |-> data.query,
      description |-> translation,
      footer |->
        IF totalPages > 1
        THEN Some("Page " \o ToString(page + 1) \o "/" \o ToString(totalPages)
                  \o " - Showing " \o formatRange(start, Len(pageVerses))
                  \o (IF data.total # {}
                      THEN " of " \o ToString(The(data.total)) \o " results"
                      ELSE " results"))
        ELSE None,
      fields |-> [i \in 1..Len(pageVerses) |-> EmbedField(pageVerses[i])]]

\* the /verse search command the pager belongs to
Owner == "user-1"
Users == {"user-1", "user-2"}
InteractionId == "i1"
\* API_BIBLE_BIBLES['KJV'], the id handleApiBible looks up for the translation
PagerBibleId == "de4e12af7f28f599-01"
PagerTranslation == "KJV"
PagerQuery == RefJohn
PagerErrorDetails ==
  [query |-> PagerQuery, translation |-> PagerTranslation,
   hint |-> "api.bible search request failed."]

prevId == "verse_prev_" \o InteractionId
nextId == "verse_next_" \o InteractionId
\* the custom ids a component interaction may carry
CustomIds == {prevId, nextId, "verse_prev_i2", "verse_next_i2"}

\* mutant of TotalPagesOf: the quotient is rounded down
TotalPagesOf_Floor(totalItems, pageSize) == Max(1, totalItems \div pageSize)

\* Math.max(1, Math.ceil(totalItems / pageSize))
TotalPagesOf(totalItems, pageSize) == Max(1, CeilDiv(totalItems, pageSize))

\* handleApiBible's fetchPage for verseQuery and translation, once
\* apiBibleSearch has returned res
fetchPageOf(res, page, verseQuery, translation) ==
  IF res.error THEN [error |-> TRUE]
  ELSE LET data == DataOf(res)
           verses == IF data # {} THEN The(data).verses ELSE <<>>
           totalItems == IF data # {} THEN The(data).total ELSE None
           totalPages == IF totalItems # {}
                         THEN TotalPagesOf(The(totalItems), MAX_SEARCH_FIELDS)
                         ELSE 1
       IN [error |-> FALSE,
           hasResults |-> Len(verses) > 0,
           totalItems |-> totalItems,
           embed |-> buildSearchResultsEmbed(
             [query |-> IF data # {} /\ The(data).query # {}
                        THEN The(The(data).query) ELSE verseQuery,
              verses |-> [i \in 1..Len(verses) |->
                            [reference |-> verses[i].reference,
                             text |-> verses[i].text]],
              total |-> totalItems],
             translation, page, MAX_SEARCH_FIELDS, totalPages)]

\* mutant of fetchPage: a failed search is taken for an empty page
fetchPage_NoError(res, page) ==
  fetchPageOf(IF res.error THEN [error |-> FALSE, data |-> None] ELSE res,
              page, PagerQuery, PagerTranslation)

\* the fetchPage of the search the pager model follows
fetchPage(res, page) == fetchPageOf(res, page, PagerQuery, PagerTranslation)

\* the request fetchPage(page) issues through apiBibleSearch
fetchPageRequest(page) ==
  apiBibleSearchRequest(PagerBibleId, PagerQuery, DEFAULT_SORT,
                        Some(MAX_SEARCH_FIELDS), Some(page * MAX_SEARCH_FIELDS))

\* buildRow(): the Previous and Next buttons for the current page state
buildRow(pg, pages) ==
  << [customId |-> prevId, label |-> "Previous", disabled |-> (pg = 0)],
     [customId |-> nextId, label |-> "Next", disabled |-> (pg >= pages - 1)] >>

\* row.components.forEach((component) => component.setDisabled(true))
DisableAll(row) == [k \in 1..Len(row) |-> [row[k] EXCEPT !.disabled = TRUE]]

\* mutant of FirstPageKind: an empty first page is not checked for
FirstPageKind_NoEmptyCheck(first) ==
  IF first.error THEN "error" ELSE "page"

\* what sendPaginatedSearch does with the first page: lines 335-345
FirstPageKind(first) ==
  IF first.error THEN "error"
  ELSE IF ~first.hasResults THEN "empty"
  ELSE "page"

\* mutant of CollectorFilter: the user is not compared
CollectorFilter_AnyUser(i) ==
  i.customId = prevId \/ i.customId = nextId

\* the collector's filter
CollectorFilter(i) ==
  i.user = Owner /\ (i.customId = prevId \/ i.customId = nextId)

\* mutant of TargetPage: Next is not clamped at the last page
TargetPage_Unclamped(customId, pg, pages) ==
  IF customId = prevId THEN Max(0, pg - 1) ELSE pg + 1

\* the page the collect handler asks updatePage for
TargetPage(customId, pg, pages) ==
  IF customId = prevId THEN Max(0, pg - 1) ELSE Min(pages - 1, pg + 1)

\* the collector was created with { time: PAGINATION_TIMEOUT_MS }: it ends
\* that long after its creation, whatever it collects
CollectorEndsAt(created, lastCollected) == created + PAGINATION_TIMEOUT_MS

(***************************************************************************)
(* State                                                                   *)
(***************************************************************************)
VARIABLES
  apiKey,       \* API_BIBLE_KEY is set (module constant of the client)
  requests,     \* the HTTP requests issued to api.bible, in order
  \* one call of apiBibleResolveQuery
  rIn,          \* its arguments
  rPc,          \* "init", "search" (awaiting apiBibleSearch),
                \* "passage" (awaiting apiBibleGetPassage), "done"
  rSearchOut,   \* what the search request did (history)
  rSearchRes,   \* searchRes once apiBibleSearch has returned
  rHit,         \* passageHit, kept across the passage request
  rPassageOut,  \* what the passage request did (history)
  rPassageRes,  \* passageRes once apiBibleGetPassage has returned
  rResult,      \* the value the call returned
  \* one call of sendPaginatedSearch (the pager of a /verse search)
  pPc,          \* "init", "first" (awaiting fetchPage(0)), "replying"
                \* (interaction.reply called and not settled), "done"
                \* (returned without a collector), "thrown" (the reply
                \* rejected), "active",
                \* "ended" (collector ended)
  page,         \* let page
  totalItems,   \* let totalItems (absent while null)
  totalPages,   \* let totalPages
  pReply,       \* the payload interaction.reply was called with
  message,      \* the public reply message: its embed and components
  createdAt,    \* when the collector was created
  lastCollectAt,\* when the collector last collected an interaction
  pending,      \* the updatePage calls awaiting their fetchPage, in order
  notices,      \* the ephemeral error replies sent to button interactions
  now,          \* the clock, in ms
  clicks,       \* component interactions collected so far
  ignored,      \* component interactions that nothing handled (history)
  firstOut,     \* what the request of fetchPage(0) did (history)
  lastFetch,    \* whether the request of the updatePage that returned last
                \* failed: "failed" or "answered" (history)
  \* one call of a backend client function (esvRequest / apiBibleFetch)
  cIn,          \* the function called and its arguments
  cPc,          \* "init", "fetch" (awaiting fetch), "body" (the response
                \* is there, its body is being read), "done"
  cSignal,      \* the caller's AbortSignal: "none", "live" or "aborted"
  cTimer,       \* the timeout timer: "none", "armed", "fired", "cleared"
  cAbort,       \* controller.signal.aborted, with what aborted it (history)
  cResp,        \* the response fetch resolved with (ok, status)
  cClock,       \* ms since the call started
  cResult,      \* how the call ended: a returned value or a thrown error
  \* the user_preferences collection and the writes under way
  uDb,          \* getDb() has a database (connectMongo has resolved)
  uStore,       \* the collection: per userId its documents, oldest first
                \* (no index makes userId unique)
  uPending,     \* the updateOne calls sent and not yet answered
  uIssued,      \* number of write calls made so far; also the clock that
                \* `new Date()` reads
  uLast,        \* the write the collection applied last (history)
  uWritten,     \* per user and field, the value of the last write applied
                \* to that field (history)
  \* one invocation of the /verse command (execute)
  vIn,          \* the interaction: user, subcommand, query, translation
  vPc,          \* "init", then the await it is at: "prefs", "preferred",
                \* "esvPassage", "esvSearch", "resolve", "first",
                \* "replying" (execute awaits its reply), "catching" (the
                \* catch block awaits its reply); "done" (execute returned),
                \* "caught" (the catch block returned), "unhandled" (the
                \* reply of the catch block rejected)
  vPrefs,       \* displayPrefs
  vRead,        \* what getPreferredTranslation gave, if called (history)
  vTranslation, \* the translation resolveTranslation returned
  vQuery,       \* verseQuery / verseReference
  vBackend,     \* the backend answer that decided the reply (history)
  vReplies,     \* the payloads interaction.reply was called with; the
                \* last call is pending in "replying" and "catching", and
                \* the calls before it rejected
  \* one call of a function that keeps no state
  fCall,        \* the function called and its arguments, if any
  fOut,         \* what it returned
  \* the daily verse helper
  dFile,        \* daily_verses.json as it is on disk
  cachedVerses, \* the list loadDailyVerses keeps after its first load
  dLog,         \* the calls of getDailyVerseReference so far: who asked,
                \* the date passed and how the call ended (history)
  \* invocations of /preferences set (execute), one at a time
  sIn,          \* the interaction: user and the five options
  sPc,          \* "idle", then the await it is at: "saveTranslation",
                \* "saveDisplay", "readDisplay", "readTranslation"; "done"
  sBefore,      \* the user's document when the invocation began (history)
  sReplies,     \* the payloads interaction.reply was called with
  sRuns         \* number of invocations so far

rvars == <<rIn, rPc, rSearchOut, rSearchRes, rHit, rPassageOut, rPassageRes,
          rResult>>
pvars == <<pPc, page, totalItems, totalPages, pReply, message, createdAt,
          lastCollectAt, pending, notices, now, clicks, ignored, firstOut,
          lastFetch>>
cvars == <<cIn, cPc, cSignal, cTimer, cAbort, cResp, cClock, cResult>>
uvars == <<uDb, uStore, uPending, uIssued, uLast, uWritten>>
vvars == <<vIn, vPc, vPrefs, vRead, vTranslation, vQuery, vBackend, vReplies>>
fvars == <<fCall, fOut>>
dvars == <<dFile, cachedVerses, dLog>>
svars == <<sIn, sPc, sBefore, sReplies, sRuns>>
vars ==
  <<apiKey, requests, rvars, pvars, cvars, uvars, vvars, fvars, dvars, svars>>

\* what each part of the model leaves alone of the other parts
outsideResolve == <<pvars, cvars, uvars, vvars, fvars, dvars, svars>>
outsidePager == <<rvars, cvars, uvars, vvars, fvars, dvars, svars>>
outsideClient == <<rvars, pvars, uvars, vvars, fvars, dvars, svars>>
outsidePrefs ==
  <<apiKey, requests, rvars, pvars, cvars, vvars, fvars, dvars, svars>>
outsideVerse == <<apiKey, pvars, cvars, uvars, fvars, dvars, svars>>
outsideFunctions ==
  <<apiKey, requests, rvars, pvars, cvars, uvars, vvars, dvars, svars>>
outsideDaily ==
  <<apiKey, requests, rvars, pvars, cvars, uvars, vvars, fvars, svars>>
outsideSet == <<apiKey, requests, rvars, pvars, cvars, vvars, fvars, dvars>>

\* no /preferences set invocation under observation
SetIdle ==
  /\ sIn = None
  /\ sPc = "idle"
  /\ sBefore = None
  /\ sReplies = <<>>
  /\ sRuns = 0

\* the daily verse helper when the model does not look at it
DailyIdle ==
  /\ dFile = [kind |-> "missing"]
  /\ cachedVerses = {}
  /\ dLog = <<>>

\* no function call under observation
FunctionsIdle == fCall = {} /\ fOut = {}

\* no /verse invocation under observation
VerseIdle ==
  /\ vIn = None
  /\ vPc = "idle"
  /\ vPrefs = None
  /\ vRead = None
  /\ vTranslation = None
  /\ vQuery = None
  /\ vBackend = None
  /\ vReplies = <<>>

\* the preferences store when the model does not look at it: no database
PrefsIdle ==
  /\ uDb = FALSE
  /\ uStore = <<>>
  /\ uPending = {}
  /\ uIssued = 0
  /\ uLast = {}
  /\ uWritten = <<>>

\* no client call under observation
ClientIdle ==
  /\ cIn = None
  /\ cPc = "idle"
  /\ cSignal = "none"
  /\ cTimer = "none"
  /\ cAbort = None
  /\ cResp = None
  /\ cClock = 0
  /\ cResult = None

\* timeoutMs = REQUEST_TIMEOUT_MS unless the caller passes one
TimeoutOf(in) == IF in.timeoutMs = {} THEN REQUEST_TIMEOUT_MS ELSE The(in.timeoutMs)

(***************************************************************************)
(* apiBibleResolveQuery, one action per stretch between two awaits         *)
(***************************************************************************)
\* the call up to `await apiBibleSearch(...)`
ResolveCall ==
  /\ rPc = "init"
  /\ LET chk == apiBibleSearchCheck(apiKey, rIn.bibleId, rIn.query)
     IN IF chk # {}
        THEN /\ rSearchRes' = chk
             /\ rResult' = chk
             /\ rPc' = "done"
             /\ UNCHANGED requests
        ELSE /\ requests' = Append(requests,
                   apiBibleSearchRequest(rIn.bibleId, rIn.query, DEFAULT_SORT,
                                         None, None))
             /\ rPc' = "search"
             /\ UNCHANGED <<rSearchRes, rResult>>
  /\ UNCHANGED <<apiKey, rIn, rSearchOut, rHit, rPassageOut, rPassageRes, outsideResolve>>

\* the answers drawn when the call is made by the /verse command: one
\* failure of each kind, and at most one hit of each kind
CommandFailures ==
  {o \in FailedOutcomes :
     o.kind = "response" => (o.status = 500 /\ o.json = None)}
CommandSearchOutcomes ==
  CommandFailures
  \cup {OkOutcome(b) : b \in
          {None}
          \cup {Some([data |-> Some([passages |-> ps, verses |-> vs,
                                      total |-> m.total, limit |-> m.limit,
                                      offset |-> m.offset, query |-> m.query])]) :
                  ps \in SeqsUpTo(PassageHits, 1),
                  vs \in SeqsUpTo(VerseHits, 1),
                  m \in SearchMetas}}
CommandPassageOutcomes ==
  CommandFailures
  \cup {OkOutcome(b) : b \in
          {x \in PassageBodies :
             x # {} /\ The(x).data # {} =>
               The(The(x).data).reference \in {None, Some(RefPsalm)}}}
\* the answers a search / passage request of the resolver may get
ResolveSearchOutcomes ==
  IF vPc = "idle" THEN SearchOutcomes ELSE CommandSearchOutcomes
ResolvePassageOutcomes ==
  IF vPc = "idle" THEN PassageOutcomes ELSE CommandPassageOutcomes

\* apiBibleSearch returns: lines 458-535 up to the next await or return
ResolveSearchReturns ==
  /\ rPc = "search"
  /\ \E out \in ResolveSearchOutcomes :
       LET searchRes == apiBibleFetch(out, TimeoutOf(rIn))
       IN /\ rSearchOut' = Some(out)
          /\ rSearchRes' = Some(searchRes)
          /\ IF searchRes.error
             THEN /\ rResult' = Some(searchRes)
                  /\ rPc' = "done"
                  /\ UNCHANGED <<requests, rHit>>
             ELSE IF HasPassages(searchRes)
             THEN LET passageHit == The(DataOf(searchRes)).passages[1]
                      passageId == passageHit.id
                  IN /\ rHit' = Some(passageHit)
                     /\ IF passageId = ""
                        THEN /\ rResult' = Some(buildError(
                                  "Search returned a passage without an id.",
                                  None, None))
                             /\ rPc' = "done"
                             /\ UNCHANGED requests
                        ELSE LET chk == apiBibleGetPassageCheck(
                                          apiKey, rIn.bibleId, passageId)
                             IN IF chk # {}
                                THEN /\ rResult' = chk
                                     /\ rPc' = "done"
                                     /\ UNCHANGED requests
                                ELSE /\ requests' = Append(requests,
                                          apiBibleGetPassageRequest(
                                            rIn.bibleId, passageId,
                                            PassageOptions(rIn)))
                                     /\ rPc' = "passage"
                                     /\ UNCHANGED rResult
             ELSE /\ rResult' = Some(IF HasVerses(searchRes)
                                     THEN SearchResult(rIn, searchRes)
                                     ELSE EmptyResult(rIn, searchRes))
                  /\ rPc' = "done"
                  /\ UNCHANGED <<requests, rHit>>
  /\ UNCHANGED <<apiKey, rIn, rPassageOut, rPassageRes, outsideResolve>>

\* apiBibleGetPassage returns: lines 482-507
ResolvePassageReturns ==
  /\ rPc = "passage"
  /\ \E out \in ResolvePassageOutcomes :
       LET passageRes == apiBibleFetch(out, TimeoutOf(rIn))
       IN /\ rPassageOut' = Some(out)
          /\ rPassageRes' = Some(passageRes)
          /\ rResult' = Some(IF passageRes.error THEN passageRes
                             ELSE PassageResult(rIn, The(rHit), passageRes))
  /\ rPc' = "done"
  /\ UNCHANGED <<apiKey, requests, rIn, rSearchOut, rSearchRes, rHit, outsideResolve>>

\* no pager: the state of the pager variables outside a pager run
PagerIdle ==
  /\ pPc = "idle"
  /\ page = 0
  /\ totalItems = None
  /\ totalPages = 1
  /\ pReply = None
  /\ message = None
  /\ createdAt = 0
  /\ lastCollectAt = 0
  /\ pending = <<>>
  /\ notices = <<>>
  /\ now = 0
  /\ clicks = 0
  /\ ignored = 0
  /\ firstOut = None
  /\ lastFetch = None

InitResolve ==
  /\ apiKey \in BOOLEAN
  /\ requests = <<>>
  /\ PagerIdle
  /\ ClientIdle
  /\ PrefsIdle
  /\ VerseIdle
  /\ FunctionsIdle
  /\ DailyIdle
  /\ SetIdle
  /\ rIn \in ResolveInputs
  /\ rPc = "init"
  /\ rSearchOut = None
  /\ rSearchRes = None
  /\ rHit = None
  /\ rPassageOut = None
  /\ rPassageRes = None
  /\ rResult = None

NextResolve ==
  \/ ResolveCall
  \/ ResolveSearchReturns
  \/ ResolvePassageReturns

SpecResolve == InitResolve /\ [][NextResolve]_vars

(***************************************************************************)
(* sendPaginatedSearch with handleApiBible's fetchPage                     *)
(***************************************************************************)
MaxEvents == 2
MaxIgnored == 1
MaxTicks == 6
\* the clock advances in steps of a quarter of the pager's timeout
TickMs == PAGINATION_TIMEOUT_MS \div 4

\* what the search request of a page fetch may do
PagerMetas ==
  {[total |-> t, limit |-> None, offset |-> None, query |-> None] :
     t \in {None, Some(0), Some(5), Some(23)}}
PagerBodies ==
  { None }
  \cup { Some([data |-> Some([passages |-> <<>>, verses |-> vs,
                              total |-> m.total, limit |-> m.limit,
                              offset |-> m.offset, query |-> m.query])]) :
           vs \in SeqsUpTo(VerseHits, 1), m \in PagerMetas }
\* fetchPage reduces every failure to { error: true }: one failure of
\* each kind is enough here
PagerFailures ==
  {o \in FailedOutcomes :
     o.kind = "response" => (o.status = 500 /\ o.json = None)}
PagerOutcomes == PagerFailures \cup {OkOutcome(b) : b \in PagerBodies}

\* what apiBibleSearch returns to fetchPage for the request outcome out
PagerSearchRes(out) ==
  LET chk == apiBibleSearchCheck(apiKey, PagerBibleId, PagerQuery)
  IN IF chk # {} THEN The(chk) ELSE apiBibleFetch(out, REQUEST_TIMEOUT_MS)

\* mutant of IssueFetch: the page on display is not fetched again
IssueFetch_Cached(pg) ==
  IF apiBibleSearchCheck(apiKey, PagerBibleId, PagerQuery) # {}
     \/ (pPc = "active" /\ pg = page)
  THEN UNCHANGED requests
  ELSE requests' = Append(requests, fetchPageRequest(pg))

\* fetchPage(pg) up to its await: the request goes out unless the local
\* checks of apiBibleSearch fail
IssueFetch(pg) ==
  IF apiBibleSearchCheck(apiKey, PagerBibleId, PagerQuery) # {}
  THEN UNCHANGED requests
  ELSE requests' = Append(requests, fetchPageRequest(pg))

\* sendPaginatedSearch up to `await fetchPage(0)`: lines 312-334
PagerStart ==
  /\ pPc = "init"
  /\ pPc' = "first"
  /\ IssueFetch(0)
  /\ UNCHANGED <<apiKey, outsidePager, page, totalItems, totalPages, pReply, message,
                 createdAt, lastCollectAt, pending, notices, now, clicks,
                 ignored, firstOut,
                 lastFetch>>

\* fetchPage(0) returns: lines 335-355, up to the call of interaction.reply
\* (replyError with the notice, whose promise is returned, or the reply
\* with the first page, which is awaited)
PagerFirstReturns ==
  /\ pPc = "first"
  /\ \E out \in PagerOutcomes :
       LET first == fetchPage(PagerSearchRes(out), 0)
           kind == FirstPageKind(first)
       IN /\ firstOut' = IF requests = <<>> THEN None ELSE Some(out)
          /\ IF kind = "error"
             THEN /\ pReply' = Some(replyError(
                       "There was an error while executing this command!",
                       PagerErrorDetails))
                  /\ pPc' = "replying"
                  /\ UNCHANGED <<totalItems, totalPages>>
             ELSE IF kind = "empty"
             THEN /\ pReply' = Some(replyError("No results found.",
                                               PagerErrorDetails))
                  /\ pPc' = "replying"
                  /\ UNCHANGED <<totalItems, totalPages>>
             ELSE /\ totalItems' = IF first.totalItems # {}
                                   THEN first.totalItems ELSE totalItems
                  /\ totalPages' = IF first.totalItems # {}
                                   THEN TotalPagesOf(The(first.totalItems),
                                                     MAX_SEARCH_FIELDS)
                                   ELSE totalPages
                  /\ pReply' = Some(
                       [embeds |-> <<first.embed>>,
                        components |-> IF totalPages' > 1
                                       THEN <<buildRow(page, totalPages')>>
                                       ELSE <<>>])
                  /\ pPc' = "replying"
  /\ UNCHANGED <<apiKey, requests, outsidePager, page, message, createdAt,
                 lastCollectAt, pending, notices, now, clicks, ignored,
                 lastFetch>>

\* interaction.reply resolves.  The reply of a notice (lines 336, 344) was
\* returned: the function returns, without message and collector.  The
\* reply with the page was awaited and gives the message: lines 352-363
\* and the registration of the handlers; without a second page the
\* function returns and no collector is created
PagerReplyResolves ==
  /\ pPc = "replying"
  /\ IF "embeds" \notin DOMAIN The(pReply)
     THEN /\ pPc' = "done"
          /\ UNCHANGED <<message, createdAt, lastCollectAt>>
     ELSE /\ message' = pReply
          /\ IF totalPages <= 1
             THEN /\ pPc' = "done"
                  /\ UNCHANGED <<createdAt, lastCollectAt>>
             ELSE /\ pPc' = "active"
                  /\ createdAt' = now
                  /\ lastCollectAt' = now
  /\ UNCHANGED <<apiKey, requests, outsidePager, page, totalItems, totalPages,
                 pReply, pending, notices, now, clicks, ignored, firstOut,
                 lastFetch>>

\* interaction.reply rejects (the interaction is unknown to Discord or the
\* request fails), for a notice as for the page: sendPaginatedSearch
\* throws, there is no message and no collector
PagerReplyRejects ==
  /\ pPc = "replying"
  /\ pPc' = "thrown"
  /\ UNCHANGED <<apiKey, requests, outsidePager, page, totalItems, totalPages,
                 pReply, message, createdAt, lastCollectAt, pending, notices,
                 now, clicks, ignored, firstOut, lastFetch>>

\* the component interactions that may arrive on the message
Interactions == [user : Users, customId : CustomIds]

\* a component interaction passes the filter of the running collector:
\* the 'collect' handler runs up to `await fetchPage(newPage)`; the
\* emitter does not wait for the handler of an earlier interaction
PagerCollect ==
  /\ pPc = "active"
  /\ message # None
  /\ clicks < MaxEvents
  /\ \E i \in Interactions :
       /\ CollectorFilter(i)
       /\ LET newPage == TargetPage(i.customId, page, totalPages)
          IN /\ IssueFetch(newPage)
             /\ pending' = Append(pending,
                  [i |-> i, newPage |-> newPage, startedAt |-> now])
  /\ clicks' = clicks + 1
  /\ lastCollectAt' = now
  /\ UNCHANGED <<apiKey, outsidePager, pPc, page, totalItems, totalPages, pReply,
                 message, createdAt, notices, now, ignored, firstOut,
                 lastFetch>>

\* a component interaction that the filter rejects, or that arrives when
\* no collector is listening (also while the reply with the first page is
\* still awaited: Discord shows its buttons before the bot has the
\* message): nothing runs
PagerIgnore ==
  /\ \/ message # None
     \/ /\ pPc = "replying"
        /\ "components" \in DOMAIN The(pReply)
        /\ The(pReply).components # <<>>
  /\ ignored < MaxIgnored
  /\ \E i \in Interactions : pPc = "active" => ~CollectorFilter(i)
  /\ ignored' = ignored + 1
  /\ UNCHANGED <<apiKey, requests, outsidePager, pPc, page, totalItems, totalPages,
                 pReply, message, createdAt, lastCollectAt, pending, notices,
                 now, clicks, firstOut,
                 lastFetch>>

\* q without its k-th element
RemoveAt(q, k) == SubSeq(q, 1, k - 1) \o SubSeq(q, k + 1, Len(q))

\* the fetchPage of an updatePage call returns: lines 367-387
PagerFetchReturns ==
  /\ \E k \in 1..Len(pending), out \in PagerOutcomes :
       LET h == pending[k]
           res == fetchPage(PagerSearchRes(out), h.newPage)
       IN /\ pending' = RemoveAt(pending, k)
          /\ lastFetch' = Some(IF out \in PagerFailures THEN "failed"
                                ELSE "answered")
          /\ IF res.error
             THEN /\ notices' = Append(notices,
                       [content |-> buildErrorMessage(
                          "There was an error while executing this command!",
                          PagerErrorDetails)] @@ EPHEMERAL_REPLY)
                  /\ UNCHANGED <<page, totalItems, totalPages, message>>
             ELSE /\ totalItems' = IF res.totalItems # {}
                                   THEN res.totalItems ELSE totalItems
                  /\ totalPages' = IF res.totalItems # {}
                                   THEN TotalPagesOf(The(res.totalItems),
                                                     MAX_SEARCH_FIELDS)
                                   ELSE totalPages
                  /\ page' = h.newPage
                  /\ message' = Some(
                       [embeds |-> <<res.embed>>,
                        components |-> <<buildRow(page', totalPages')>>])
                  /\ UNCHANGED notices
  /\ UNCHANGED <<apiKey, requests, outsidePager, pPc, pReply, createdAt,
                 lastCollectAt, now, clicks, ignored, firstOut>>

\* the collector's timer fires: the 'end' handler, lines 398-403
PagerCollectorEnd ==
  /\ pPc = "active"
  /\ now >= CollectorEndsAt(createdAt, lastCollectAt)
  /\ pPc' = "ended"
  /\ IF totalPages <= 1
     THEN UNCHANGED message
     ELSE message' = Some([The(message) EXCEPT
            !.components = <<DisableAll(buildRow(page, totalPages))>>])
  /\ UNCHANGED <<apiKey, requests, outsidePager, page, totalItems, totalPages, pReply,
                 createdAt, lastCollectAt, pending, notices, now, clicks,
                 ignored, firstOut,
                 lastFetch>>

\* time passes.  A request ends within REQUEST_TIMEOUT_MS, Discord answers
\* a reply sooner than the clock's step, and a due timer fires before the
\* clock moves on.
Tick ==
  /\ now < MaxTicks * TickMs
  /\ pPc \notin {"first", "replying"}
  /\ pPc = "init" => now < TickMs
  /\ \A k \in 1..Len(pending) :
       now + TickMs - pending[k].startedAt <= REQUEST_TIMEOUT_MS
  /\ ~(pPc = "active" /\ now >= CollectorEndsAt(createdAt, lastCollectAt))
  /\ now' = now + TickMs
  /\ UNCHANGED <<apiKey, requests, outsidePager, pPc, page, totalItems, totalPages,
                 pReply, message, createdAt, lastCollectAt, pending, notices,
                 clicks, ignored, firstOut,
                 lastFetch>>

\* no call of apiBibleResolveQuery: the resolver variables outside a call
ResolveIdle ==
  /\ rIn = None
  /\ rPc = "idle"
  /\ rSearchOut = None
  /\ rSearchRes = None
  /\ rHit = None
  /\ rPassageOut = None
  /\ rPassageRes = None
  /\ rResult = None

InitPager ==
  /\ apiKey \in BOOLEAN
  /\ requests = <<>>
  /\ ResolveIdle
  /\ ClientIdle
  /\ PrefsIdle
  /\ VerseIdle
  /\ FunctionsIdle
  /\ DailyIdle
  /\ SetIdle
  /\ pPc = "init"
  /\ page = 0
  /\ totalItems = None
  /\ totalPages = 1
  /\ pReply = None
  /\ message = None
  /\ createdAt = 0
  /\ lastCollectAt = 0
  /\ pending = <<>>
  /\ notices = <<>>
  /\ now = 0
  /\ clicks = 0
  /\ ignored = 0
  /\ firstOut = None
  /\ lastFetch = None

NextPager ==
  \/ PagerStart
  \/ PagerFirstReturns
  \/ PagerReplyResolves
  \/ PagerReplyRejects
  \/ PagerCollect
  \/ PagerIgnore
  \/ PagerFetchReturns
  \/ PagerCollectorEnd
  \/ Tick

SpecPager == InitPager /\ [][NextPager]_vars

(***************************************************************************)
(* One call of a backend client: esvPassageRequest / esvSearchRequest      *)
(* (client A, through esvRequest) and apiBibleSearch / apiBibleGetPassage  *)
(* (client B, through apiBibleFetch), with the timer and the abort signal  *)
(***************************************************************************)
MaxClientTicks == 5
\* the clock of a client call advances in quarters of the default timeout
ClientTickMs == REQUEST_TIMEOUT_MS \div 4

\* the requests of client A: the query parameters of the two URLs
esvPassageRequest(verse) ==
  [path |-> "esv-passage", q |-> verse,
   includeFootnoteBody |-> "false", includeFootnotes |-> "false",
   includePassageReferences |-> "false", includeShortCopyright |-> "false",
   includeHeadings |-> "false"]
esvSearchRequest(text, pg, pageSize) ==
  [path |-> "esv-search", q |-> text, page |-> pg, pageSize |-> pageSize]

\* the errors esvRequest throws
esvTimeoutMessage ==
  "ESV API request timed out after " \o ToString(REQUEST_TIMEOUT_MS) \o "ms"
esvStatusMessage(status) ==
  "ESV API request failed with status " \o ToString(status)

Returned(v) == [how |-> "return", value |-> v]
Thrown(m) == [how |-> "throw", message |-> m]

\* the calls the model makes
SignalStates == {"none", "live", "aborted"}
ClientCalls ==
  {[fn |-> "apiBibleSearch", bibleId |-> b, query |-> q, signal |-> sg,
    timeoutMs |-> t] :
     b \in {"", "de4e12af7f28f599-01"}, q \in {<<>>, RefJohn}, sg \in SignalStates,
     t \in {None, Some(CustomTimeoutMs)}}
  \cup
  {[fn |-> "apiBibleGetPassage", bibleId |-> b, passageId |-> pid,
    signal |-> sg, timeoutMs |-> t] :
     b \in {"", "de4e12af7f28f599-01"}, pid \in {"", "JHN.3"}, sg \in SignalStates,
     t \in {None, Some(CustomTimeoutMs)}}
  \cup {[fn |-> "esvPassageRequest", verse |-> RefJohn, signal |-> "none",
         timeoutMs |-> None]}
  \cup {[fn |-> "esvSearchRequest", text |-> RefJohn, page |-> pg,
         pageSize |-> pg, signal |-> "none", timeoutMs |-> None] :
          pg \in {None, Some(2)}}

IsClientB(in) == in.fn \in {"apiBibleSearch", "apiBibleGetPassage"}

\* the local checks of the called function: a Failure, or nothing
ClientCheck(in) ==
  IF in.fn = "apiBibleSearch"
  THEN apiBibleSearchCheck(apiKey, in.bibleId, in.query)
  ELSE IF in.fn = "apiBibleGetPassage"
  THEN apiBibleGetPassageCheck(apiKey, in.bibleId, in.passageId)
  ELSE None

\* the request the called function hands to fetch
ClientRequest(in) ==
  IF in.fn = "apiBibleSearch"
  THEN apiBibleSearchRequest(in.bibleId, in.query, DEFAULT_SORT, None, None)
  ELSE IF in.fn = "apiBibleGetPassage"
  THEN apiBibleGetPassageRequest(in.bibleId, in.passageId,
         [contentType |-> "json", includeNotes |-> FALSE,
          includeTitles |-> TRUE, includeChapterNumbers |-> FALSE,
          includeVerseNumbers |-> TRUE, includeVerseSpans |-> FALSE,
          useOrgId |-> FALSE])
  ELSE IF in.fn = "esvPassageRequest" THEN esvPassageRequest(in.verse)
  ELSE esvSearchRequest(in.text, in.page, in.pageSize)

\* what the network may do with a request that was not aborted
WireThrows == {"", "ECONNRESET"}
WireResponses ==
  {[ok |-> TRUE, status |-> 200], [ok |-> FALSE, status |-> 404],
   [ok |-> FALSE, status |-> 500]}
\* what res.json() of client B may parse (nothing when the body is no JSON)
WireJson(resp) ==
  IF resp.ok THEN {None, Some([data |-> None])} ELSE ErrorBodies
\* the bodies response.json() of client A may parse
EsvBodies == {[results |-> <<>>], [passages |-> <<"text">>]}

\* mutant of ClientFetchFails: a failed attempt of client B is sent again
ClientFetchFails_Retry(failure) ==
  IF IsClientB(cIn) /\ Len(requests) < 2
  THEN /\ requests' = Append(requests, ClientRequest(cIn))
       /\ UNCHANGED <<cPc, cTimer, cResult>>
  ELSE /\ cResult' = Some(failure)
       /\ cPc' = "done"
       /\ cTimer' = "cleared"
       /\ UNCHANGED requests

\* the catch and finally blocks: the failure ends the call, the timer is
\* cleared, nothing is sent again
ClientFetchFails(failure) ==
  /\ cResult' = Some(failure)
  /\ cPc' = "done"
  /\ cTimer' = "cleared"
  /\ UNCHANGED requests

\* the call up to `await fetch(...)`
ClientCall ==
  /\ cPc = "init"
  /\ IF ClientCheck(cIn) # {}
     THEN /\ cResult' = Some(Returned(The(ClientCheck(cIn))))
          /\ cPc' = "done"
          /\ UNCHANGED <<requests, cTimer, cAbort>>
     ELSE /\ cTimer' = "armed"
          /\ cPc' = "fetch"
          /\ UNCHANGED cResult
          /\ IF cSignal = "aborted"
             THEN \* controller.abort() before fetch: nothing goes out
                  /\ cAbort' = Some("signal")
                  /\ UNCHANGED requests
             ELSE /\ requests' = Append(requests, ClientRequest(cIn))
                  /\ UNCHANGED cAbort
  /\ UNCHANGED <<apiKey, cIn, cSignal, cResp, cClock, outsideClient>>

\* the caller aborts its signal while the call is running: the listener
\* aborts the controller
ClientSignalAbort ==
  /\ cPc \in {"fetch", "body"}
  /\ cSignal = "live"
  /\ cSignal' = "aborted"
  /\ cAbort' = IF cAbort = {} THEN Some("signal") ELSE cAbort
  /\ UNCHANGED <<apiKey, requests, cIn, cPc, cTimer, cResp, cClock, cResult,
                 outsideClient>>

\* the timeout timer fires: controller.abort()
ClientTimerFires ==
  /\ cPc \in {"fetch", "body"}
  /\ cTimer = "armed"
  /\ cClock >= TimeoutOf(cIn)
  /\ cTimer' = "fired"
  /\ cAbort' = IF cAbort = {} THEN Some("timer") ELSE cAbort
  /\ UNCHANGED <<apiKey, requests, cIn, cPc, cSignal, cResp, cClock, cResult,
                 outsideClient>>

\* `await fetch(...)` settles: rejected with AbortError when the controller
\* was aborted, else rejected by the network or resolved with a response
ClientFetchSettles ==
  /\ cPc = "fetch"
  /\ IF cAbort # {}
     THEN /\ ClientFetchFails(
               IF IsClientB(cIn)
               THEN Returned(apiBibleFetch([kind |-> "abort"], TimeoutOf(cIn)))
               ELSE Thrown(esvTimeoutMessage))
          /\ UNCHANGED cResp
     ELSE \/ \E m \in WireThrows :
               /\ ClientFetchFails(
                    IF IsClientB(cIn)
                    THEN Returned(apiBibleFetch(
                           [kind |-> "throw", message |-> m], TimeoutOf(cIn)))
                    ELSE Thrown(m))
               /\ UNCHANGED cResp
          \/ \E resp \in WireResponses :
               /\ cResp' = Some(resp)
               /\ cPc' = "body"
               \* client A: `return response.json()` leaves the try block, so
               \* finally clears the timer before the body is read
               /\ cTimer' = IF ~IsClientB(cIn) /\ resp.ok THEN "cleared"
                            ELSE cTimer
               /\ UNCHANGED <<requests, cResult>>
  /\ UNCHANGED <<apiKey, cIn, cSignal, cAbort, cClock, outsideClient>>

\* the body read settles.  Client B: res.json().catch(() => null), then the
\* res.ok test.  Client A: response.text().catch(() => "") and the status
\* error for a non-2xx response, response.json() for a 2xx one.
ClientBodySettles ==
  /\ cPc = "body"
  /\ LET resp == The(cResp)
     IN IF IsClientB(cIn)
        THEN \E json \in (IF cAbort # {} THEN {None} ELSE WireJson(resp)) :
               cResult' = Some(Returned(apiBibleFetch(
                 [kind |-> "response", ok |-> resp.ok, status |-> resp.status,
                  json |-> json], TimeoutOf(cIn))))
        ELSE IF ~resp.ok
        THEN cResult' = Some(Thrown(esvStatusMessage(resp.status)))
        ELSE \/ \E body \in EsvBodies : cResult' = Some(Returned(body))
             \/ cResult' = Some(Thrown("Unexpected end of JSON input"))
  /\ cPc' = "done"
  /\ cTimer' = "cleared"
  /\ UNCHANGED <<apiKey, requests, cIn, cSignal, cAbort, cResp, cClock,
                 outsideClient>>

\* time passes while the call is pending; a due timer fires and an aborted
\* fetch or body read settles before the clock moves on
ClientTick ==
  /\ cPc \in {"fetch", "body"}
  /\ cClock < MaxClientTicks * ClientTickMs
  /\ ~(cTimer = "armed" /\ cClock >= TimeoutOf(cIn))
  /\ cAbort = {}
  /\ cClock' = cClock + ClientTickMs
  /\ UNCHANGED <<apiKey, requests, cIn, cPc, cSignal, cTimer, cAbort, cResp,
                 cResult, outsideClient>>

InitClient ==
  /\ apiKey \in BOOLEAN
  /\ requests = <<>>
  /\ ResolveIdle
  /\ PagerIdle
  /\ PrefsIdle
  /\ VerseIdle
  /\ FunctionsIdle
  /\ DailyIdle
  /\ SetIdle
  /\ cIn \in ClientCalls
  /\ cPc = "init"
  /\ cSignal = cIn.signal
  /\ cTimer = "none"
  /\ cAbort = None
  /\ cResp = None
  /\ cClock = 0
  /\ cResult = None

NextClient ==
  \/ ClientCall
  \/ ClientSignalAbort
  \/ ClientTimerFires
  \/ ClientFetchSettles
  \/ ClientBodySettles
  \/ ClientTick

SpecClient == InitClient /\ [][NextClient]_vars

(***************************************************************************)
(* helpers/user_preferences: the user_preferences collection               *)
(***************************************************************************)
MaxPrefOps == 3

DEFAULT_VERSE_DISPLAY ==
  [footnotes |-> FALSE, headings |-> "auto", verseNumbers |-> TRUE,
   lineByLine |-> "auto"]
DisplayFields == DOMAIN DEFAULT_VERSE_DISPLAY

\* the document an upsert inserts when the filter { userId } matches nothing
NewDoc(userId) ==
  [userId |-> userId, preferredTranslation |-> None, verseDisplay |-> None,
   updatedAt |-> None]

\* findOne({ userId }): the first document with that userId, if any
findOne(store, userId) ==
  IF store[userId] = <<>> THEN None ELSE Some(store[userId][1])

\* doc?.preferredTranslation ?? null
getPreferredTranslation(store, userId) ==
  IF findOne(store, userId) = {} THEN None
  ELSE The(findOne(store, userId)).preferredTranslation

\* { ...DEFAULT_VERSE_DISPLAY, ...(doc?.verseDisplay ?? {}) }
getVerseDisplayPreferences(store, userId) ==
  LET doc == findOne(store, userId)
      stored == IF doc = {} \/ The(doc).verseDisplay = {} THEN <<>>
                ELSE The(The(doc).verseDisplay)
  IN [f \in DisplayFields |->
        IF f \in DOMAIN stored THEN stored[f] ELSE DEFAULT_VERSE_DISPLAY[f]]

\* the update documents of the three writers.  setDisplay lists the
\* 'verseDisplay.<field>' paths of $set, unsetDisplay is $unset: verseDisplay
setPreferredTranslationUpdate(translation, date) ==
  [setTranslation |-> Some(translation), setDisplay |-> <<>>,
   unsetDisplay |-> FALSE, updatedAt |-> date]

\* updates gives, for each field, the value passed if it has the type the
\* function tests for (typeof ... === 'boolean' / 'string')
setVerseDisplayPreferencesUpdate(updates, date) ==
  [setTranslation |-> None,
   setDisplay |-> [f \in {g \in DisplayFields : updates[g] # {}} |->
                     The(updates[f])],
   unsetDisplay |-> FALSE, updatedAt |-> date]

resetVerseDisplayPreferencesUpdate(date) ==
  [setTranslation |-> None, setDisplay |-> <<>>,
   unsetDisplay |-> TRUE, updatedAt |-> date]

\* what $set / $unset do to one document
ApplyUpdate(doc, upd) ==
  LET display0 == IF upd.unsetDisplay THEN None ELSE doc.verseDisplay
      old == IF display0 = {} THEN <<>> ELSE The(display0)
      display1 ==
        IF DOMAIN upd.setDisplay = {} THEN display0
        ELSE Some([f \in DOMAIN old \cup DOMAIN upd.setDisplay |->
                     IF f \in DOMAIN upd.setDisplay THEN upd.setDisplay[f]
                     ELSE old[f]])
  IN [userId |-> doc.userId,
      preferredTranslation |->
        IF upd.setTranslation # {} THEN upd.setTranslation
        ELSE doc.preferredTranslation,
      verseDisplay |-> display1,
      updatedAt |-> Some(upd.updatedAt)]

\* the insert of an upsert whose filter { userId } matched no document: the
\* collection has no unique index on userId, so the document is added
\* whatever other upserts inserted since the filter was evaluated
upsertInsert(store, userId, upd) ==
  [store EXCEPT ![userId] = Append(@, ApplyUpdate(NewDoc(userId), upd))]

\* collection.updateOne({ userId }, update, { upsert: true }) when the
\* filter is evaluated and the update applied with no other write between:
\* the first matching document is updated, or a new one inserted
updateOne(store, userId, upd) ==
  IF store[userId] = <<>> THEN upsertInsert(store, userId, upd)
  ELSE [store EXCEPT ![userId] = [@ EXCEPT ![1] = ApplyUpdate(@, upd)]]

\* the write calls the model makes
PrefTranslations == {"KJV", "ESV", "XYZ"}
DisplayUpdates ==
  { [footnotes |-> Some(TRUE), headings |-> None, verseNumbers |-> None,
     lineByLine |-> None],
    [footnotes |-> None, headings |-> Some("on"), verseNumbers |-> Some(FALSE),
     lineByLine |-> Some("off")],
    [footnotes |-> None, headings |-> None, verseNumbers |-> None,
     lineByLine |-> None] }
PrefCalls ==
  {[fn |-> "setPreferredTranslation", userId |-> u, translation |-> t] :
     u \in Users, t \in PrefTranslations}
  \cup {[fn |-> "setVerseDisplayPreferences", userId |-> u, updates |-> d] :
          u \in Users, d \in DisplayUpdates}
  \cup {[fn |-> "resetVerseDisplayPreferences", userId |-> u] : u \in Users}

\* the update document the called function builds
PrefUpdate(call, date) ==
  IF call.fn = "setPreferredTranslation"
  THEN setPreferredTranslationUpdate(call.translation, date)
  ELSE IF call.fn = "setVerseDisplayPreferences"
  THEN setVerseDisplayPreferencesUpdate(call.updates, date)
  ELSE resetVerseDisplayPreferencesUpdate(date)

\* the fields of a user's record the history follows
PrefFields == {"preferredTranslation", "updatedAt"} \cup DisplayFields

\* the value a write leaves in a field: what it wrote ({} when it removed
\* the field), or the value before when it does not touch the field
WrittenBy(call, date, f, before) ==
  IF f = "updatedAt" THEN Some(date)
  ELSE IF call.fn = "setPreferredTranslation"
  THEN (IF f = "preferredTranslation" THEN Some(call.translation) ELSE before)
  ELSE IF call.fn = "setVerseDisplayPreferences"
  THEN (IF f \in DisplayFields /\ call.updates[f] # {} THEN call.updates[f]
        ELSE before)
  ELSE (IF f \in DisplayFields THEN None ELSE before)

\* connectMongo, which index.js calls at startup without awaiting it,
\* resolves: from then on getDb() has a database.  A call that found none
\* has thrown, and its caller resumes before any other callback runs
connectMongoResolves ==
  /\ ~uDb
  /\ vPc \notin {"prefs", "preferred"}
  /\ uDb' = TRUE
  /\ UNCHANGED <<uStore, uPending, uIssued, uLast, uWritten, outsidePrefs>>

\* a write function is called: getDb() throws without a database, else the
\* update document is built (with the date of the call) and sent
PrefCall ==
  /\ uIssued < MaxPrefOps
  /\ uIssued' = uIssued + 1
  /\ \E call \in PrefCalls :
       IF ~uDb THEN UNCHANGED uPending
       ELSE uPending' = uPending \cup
              {[id |-> uIssued', call |-> call,
                update |-> PrefUpdate(call, uIssued'), miss |-> FALSE]}
  /\ UNCHANGED <<uDb, uStore, uLast, uWritten, outsidePrefs>>

\* the collection evaluates the filter of an upsert sent and finds no
\* document of the user: the upsert will insert one.  Other writes can be
\* applied before it does
PrefUpsertMisses ==
  /\ \E w \in uPending :
       /\ ~w.miss
       /\ uStore[w.call.userId] = <<>>
       /\ uPending' = (uPending \ {w}) \cup {[w EXCEPT !.miss = TRUE]}
  /\ UNCHANGED <<uDb, uStore, uIssued, uLast, uWritten, outsidePrefs>>

\* the collection applies one of the updates sent: the insert of an upsert
\* that found no document, else the update in one step
PrefApply ==
  /\ \E w \in uPending :
       /\ uPending' = uPending \ {w}
       /\ uStore' = IF w.miss
                    THEN upsertInsert(uStore, w.call.userId, w.update)
                    ELSE updateOne(uStore, w.call.userId, w.update)
       /\ uLast' = Some(w)
       /\ uWritten' =
            [uWritten EXCEPT ![w.call.userId] =
               [f \in PrefFields |->
                  WrittenBy(w.call, w.update.updatedAt, f, @[f])]]
  /\ UNCHANGED <<uDb, uIssued, outsidePrefs>>

\* an update sent is lost or refused: the call rejects, nothing is stored
PrefReject ==
  /\ \E w \in uPending : uPending' = uPending \ {w}
  /\ UNCHANGED <<uDb, uStore, uIssued, uLast, uWritten, outsidePrefs>>

InitPrefs ==
  /\ apiKey = TRUE
  /\ requests = <<>>
  /\ ResolveIdle
  /\ PagerIdle
  /\ ClientIdle
  /\ VerseIdle
  /\ FunctionsIdle
  /\ DailyIdle
  /\ SetIdle
  /\ uDb \in BOOLEAN
  /\ uStore = [u \in Users |-> <<>>]
  /\ uPending = {}
  /\ uIssued = 0
  /\ uLast = None
  /\ uWritten = [u \in Users |-> [f \in PrefFields |-> None]]

NextPrefs ==
  \/ connectMongoResolves
  \/ PrefCall
  \/ PrefUpsertMisses
  \/ PrefApply
  \/ PrefReject

SpecPrefs == InitPrefs /\ [][NextPrefs]_vars

(***************************************************************************)
(* The /verse command: execute, resolveTranslation, handleEsv,             *)
(* handleApiBible and the first page of sendPaginatedSearch                *)
(***************************************************************************)
DEFAULT_TRANSLATION == "ESV"

API_BIBLE_BIBLES ==
  [KJV |-> "de4e12af7f28f599-01", NKJV |-> "63097d2a0a2f7db3-01",
   NASB |-> "a761ca71e0b3ddcf-01", AMP |-> "a81b73293d3080c9-01",
   NIV |-> "78a9f6124f344018-01", NLT |-> "d6e14a625393b4da-01",
   CSB |-> "a556c5305ee15c3f-01", ASV |-> "06125adad2d5898a-01",
   GNV |-> "c315fa9f71d4af3a-01", MSG |-> "6f11a7de016f942e-01",
   GRCTR |-> "3aefb10641485092-01", RVR |-> "592420522e16049f-01",
   NVT |-> "41a6caa722a21d88-01", NTV |-> "826f63861180e056-01",
   DEUL |-> "926aa5efbc5e04e2-01", WLC |-> "2c500771ea16da93-01",
   FEB |-> "04fb2bec0d582d1f-01", TSI |-> "2dd568eeff29fb3c-02",
   VIE |-> "1b878de073afef07-01", CES |-> "c61908161b077c4c-01",
   TKJV |-> "2eb94132ad61ae75-01", IRV |-> "b35e70bce95d4261-01"]

\* API_BIBLE_BIBLES is a plain object: a lookup by a name that is not one
\* of its keys finds the property Object.prototype has under that name, a
\* function or an object (truthy).  The value is written as the string
\* interpolation makes of it
ObjectPrototype ==
  [n \in {"constructor", "hasOwnProperty", "isPrototypeOf",
          "propertyIsEnumerable", "toLocaleString", "toString", "valueOf",
          "__defineGetter__", "__defineSetter__", "__lookupGetter__",
          "__lookupSetter__", "__proto__"} |->
     IF n = "__proto__" THEN "[object Object]"
     ELSE IF n = "constructor" THEN "function Object() { [native code] }"
     ELSE "function " \o n \o "() { [native code] }"]

\* API_BIBLE_BIBLES[translation], if there is one
bibleIdOf(translation) ==
  IF translation \in DOMAIN API_BIBLE_BIBLES
  THEN Some(API_BIBLE_BIBLES[translation])
  ELSE IF translation \in DOMAIN ObjectPrototype
  THEN Some(ObjectPrototype[translation])
  ELSE None

\* isValidTranslation on a code that may be null
isValidTranslation(translation) ==
  IF translation = {} \/ The(translation) = "" THEN FALSE
  ELSE IF The(translation) = "ESV" THEN TRUE
  ELSE bibleIdOf(The(translation)) # {}

DEFAULT_DISPLAY_PREFS ==
  [footnotes |-> FALSE, headings |-> "auto", verseNumbers |-> TRUE,
   lineByLine |-> "auto"]

resolveToggle(setting, defaultValue) ==
  IF setting = "on" THEN TRUE
  ELSE IF setting = "off" THEN FALSE
  ELSE defaultValue

\* resolveTranslation after `await getPreferredTranslation`: read.ok tells
\* whether the read returned (with read.value) or threw
PreferredOrDefault(read) ==
  IF read.ok /\ isValidTranslation(read.value) THEN The(read.value)
  ELSE DEFAULT_TRANSLATION

VerseDescriptionLimit == 4096

\* verseEmbed: the embed of a passage (the url is given by its two
\* parameters)
verseEmbed(verse, reference, translation) ==
  [description |->
     IF Len(verse) > VerseDescriptionLimit
     THEN SubSeq(verse, 1, VerseDescriptionLimit - 3) \o <<".", ".", ".">>
     ELSE verse,
   title |-> [reference |-> reference, translation |-> translation],
   url |-> [search |-> reference, version |-> translation],
   footer |-> translation]

\* what the ESV API may answer
EsvText == <<"[", "1", "]", " ", "a">>
EsvPassageBodies ==
  {None}
  \cup {Some([passages |-> ps, passage_meta |-> pm]) :
          ps \in {None, Some(<<>>), Some(<<EsvText>>)},
          pm \in {<<>>, <<[canonical |-> RefPsalm]>>}}
EsvHits ==
  {<<>>, <<[reference |-> "John 3:16", content |-> EsvText]>>}
EsvSearchBodies ==
  {None}
  \cup {Some([results |-> rs, total_results |-> t]) :
          rs \in {None} \cup {Some(h) : h \in EsvHits},
          t \in {None, Some(23)}}
EsvThrows ==
  {Thrown(esvTimeoutMessage), Thrown(esvStatusMessage(500)),
   Thrown("ECONNRESET")}
EsvPassageOutcomes == EsvThrows \cup {Returned(b) : b \in EsvPassageBodies}
EsvSearchOutcomes == EsvThrows \cup {Returned(b) : b \in EsvSearchBodies}

\* mutant of EsvHasPassage: the passage answer is never used
EsvHasPassage_Never(out) == FALSE

\* passageResult?.passages && passageResult.passages.length > 0
EsvHasPassage(out) ==
  /\ out.value # {}
  /\ The(out.value).passages # {}
  /\ Len(The(The(out.value).passages)) > 0

\* the results list of an ESV search answer: searchResult?.results, or []
EsvResults(out) ==
  IF out.value = {} \/ The(out.value).results = {} THEN <<>>
  ELSE The(The(out.value).results)

\* one embed field of an ESV hit
EsvEmbedField(hit) ==
  LET value == Trim(hit.content)
  IN [name |-> IF hit.reference # "" THEN hit.reference ELSE "Result",
      value |-> IF Len(value) > EmbedValueLimit
                THEN SubSeq(value, 1, EmbedValueLimit - 3) \o <<Ellipsis>>
                ELSE IF value # <<>> THEN value
                ELSE <<"(", "n", "o", " ", "t", "e", "x", "t", ")">>]

buildEsvSearchResultsEmbed(data, translation, query, pg, pageSize, pages) ==
  LET start == pg * pageSize
      pageResults == data.results
  IN [title |-> query,
      description |-> translation,
      footer |->
        IF pages > 1
        THEN Some("Page " \o ToString(pg + 1) \o "/" \o ToString(pages)
                  \o " - Showing " \o formatRange(start, Len(pageResults))
                  \o (IF data.total # {}
                      THEN " of " \o ToString(The(data.total)) \o " results"
                      ELSE " results"))
        ELSE None,
      fields |-> [i \in 1..Len(pageResults) |-> EsvEmbedField(pageResults[i])]]

\* handleEsv's fetchPage once esvSearchRequest has settled as out
esvFetchPage(out, pg, verseQuery, translation) ==
  IF out.how = "throw" THEN [error |-> TRUE]
  ELSE LET total == IF out.value = {} THEN None
                    ELSE The(out.value).total_results
           results == EsvResults(out)
           pages == IF total # {}
                    THEN TotalPagesOf(The(total), MAX_SEARCH_FIELDS)
                    ELSE 1
       IN [error |-> FALSE,
           hasResults |-> Len(results) > 0,
           totalItems |-> total,
           embed |-> buildEsvSearchResultsEmbed(
             [results |-> results, total |-> total],
             translation, verseQuery, pg, MAX_SEARCH_FIELDS, pages)]

\* the store as the command finds it
OwnerDocs ==
  { None,
    Some([userId |-> Owner, preferredTranslation |-> None,
          verseDisplay |-> Some([lineByLine |-> "on", footnotes |-> TRUE]),
          updatedAt |-> Some(1)]),
    Some([userId |-> Owner, preferredTranslation |-> Some("KJV"),
          verseDisplay |-> None, updatedAt |-> Some(1)]),
    Some([userId |-> Owner, preferredTranslation |-> Some("ESV"),
          verseDisplay |-> Some([headings |-> "off"]), updatedAt |-> Some(2)]),
    Some([userId |-> Owner, preferredTranslation |-> Some("XYZ"),
          verseDisplay |-> None, updatedAt |-> Some(1)]) }

\* the reference getDailyVerseReference() returns on the day of the call
DailyReference == RefPsalm

\* the interactions the model sends
VerseInteractions ==
  {[user |-> Owner, subcommand |-> None, query |-> None, translation |-> None],
   [user |-> Owner, subcommand |-> Some("daily"), query |-> None,
    translation |-> None]}
  \cup {[user |-> Owner, subcommand |-> Some("search"), query |-> Some(q),
         translation |-> t] :
          q \in {RefJohn, RefPsalm},
          t \in {None, Some("KJV"), Some("ESV"), Some("XYZ"),
                 Some("constructor")}}

\* the details of the handlers' notices
VerseDetails(q, t, hint) == [query |-> q, translation |-> t, hint |-> hint]

\* the call interaction.reply(payload): the payload is sent; the promise
\* settles later (VerseReplySettles, VerseCatchSettles)
Reply(payload) == vReplies' = Append(vReplies, payload)

\* interaction.replied: a reply of this interaction has resolved
interactionReplied == vPc \in {"done", "caught"}

\* the catch block of the InteractionCreate handler, entered when execute
\* throws (getDailyVerseReference throws when daily_verses.json cannot be
\* read or holds no verse; a rejected interaction.reply rejects execute):
\* followUp after a reply, reply otherwise.  The content is a text without
\* detail line
InteractionCatch ==
  LET errorMessage ==
        [content |->
           [content |-> "There was an error while executing this command!",
            details |-> <<>>],
         flags |-> "Ephemeral"]
  IN IF interactionReplied
     THEN Reply(errorMessage @@ [followUp |-> TRUE])
     ELSE Reply(errorMessage)

\* execute from `translation` on: handleEsv or handleApiBible up to its
\* first await
Dispatch(prefs, t, q) ==
  /\ vTranslation' = Some(t)
  /\ vQuery' = Some(q)
  /\ IF t = "ESV"
     THEN /\ requests' = Append(requests, esvPassageRequest(q))
          /\ vPc' = "esvPassage"
          /\ UNCHANGED <<vReplies, rvars>>
     ELSE IF bibleIdOf(t) = {}
     THEN /\ Reply(replyError("Unsupported translation: " \o t \o ".",
                               VerseDetails(<<>>, t, "")))
          /\ vPc' = "replying"
          /\ UNCHANGED <<requests, rvars>>
     ELSE /\ rIn' = [bibleId |-> The(bibleIdOf(t)), query |-> q,
                     includeRaw |-> FALSE,
                     lineByLine |-> prefs.lineByLine,
                     includeNotes |-> (prefs.footnotes = TRUE),
                     includeTitles |-> resolveToggle(prefs.headings, TRUE),
                     includeVerseNumbers |-> prefs.verseNumbers,
                     timeoutMs |-> None]
          /\ rPc' = "init"
          /\ vPc' = "resolve"
          /\ UNCHANGED <<requests, vReplies, rSearchOut, rSearchRes, rHit,
                         rPassageOut, rPassageRes, rResult>>

\* execute up to `await getVerseDisplayPreferences(...)`
VerseExecute ==
  /\ vPc = "init"
  /\ IF vIn.subcommand = {}
     THEN /\ Reply(replyError("Please choose a subcommand: search or daily.",
                     VerseDetails(<<>>, "",
                       "Try /verse search with a reference or phrase.")))
          /\ vPc' = "replying"
     ELSE /\ vPc' = "prefs"
          /\ UNCHANGED vReplies
  /\ UNCHANGED <<requests, rvars, vIn, vPrefs, vRead, vTranslation, vQuery,
                 vBackend, outsideVerse>>

\* getVerseDisplayPreferences settles; then resolveTranslation up to its
\* await, or (explicit translation valid) on to the handler
VersePrefsReturn ==
  /\ vPc = "prefs"
  /\ \E ok \in {b \in BOOLEAN : b => uDb} :
       LET prefs == IF ok THEN getVerseDisplayPreferences(uStore, vIn.user)
                    ELSE DEFAULT_DISPLAY_PREFS
           q == IF The(vIn.subcommand) = "daily" THEN DailyReference
                ELSE The(vIn.query)
           explicit == IF The(vIn.subcommand) = "daily" THEN None
                       ELSE vIn.translation
       IN /\ vPrefs' = Some(prefs)
          /\ IF isValidTranslation(explicit)
             THEN Dispatch(prefs, The(explicit), q)
             ELSE /\ vPc' = "preferred"
                  /\ vQuery' = Some(q)
                  /\ UNCHANGED <<requests, rvars, vTranslation, vReplies>>
  /\ UNCHANGED <<vIn, vRead, vBackend, outsideVerse>>

\* getPreferredTranslation settles: the rest of resolveTranslation, then
\* the handler
VersePreferredReturn ==
  /\ vPc = "preferred"
  /\ \E ok \in {b \in BOOLEAN : b => uDb} :
       LET read == IF ok
                   THEN [ok |-> TRUE,
                         value |-> getPreferredTranslation(uStore, vIn.user)]
                   ELSE [ok |-> FALSE, value |-> None]
       IN /\ vRead' = Some(read)
          /\ \/ Dispatch(The(vPrefs), PreferredOrDefault(read), The(vQuery))
             \/ /\ The(vIn.subcommand) = "daily"
                /\ vTranslation' = Some(PreferredOrDefault(read))
                /\ InteractionCatch
                /\ vPc' = "catching"
                /\ UNCHANGED <<requests, rvars, vQuery>>
  /\ UNCHANGED <<vIn, vPrefs, vBackend, outsideVerse>>

\* esvPassageRequest settles: handleEsv up to `await esvSearchRequest`
VerseEsvPassageReturns ==
  /\ vPc = "esvPassage"
  /\ \E out \in EsvPassageOutcomes :
       /\ vBackend' = Some([api |-> "esv", step |-> "passage", out |-> out])
       /\ IF out.how = "throw"
          THEN /\ Reply(replyError(
                    "There was an error while executing this command!",
                    VerseDetails(The(vQuery), The(vTranslation),
                                 "ESV passage request failed.")))
               /\ vPc' = "replying"
               /\ UNCHANGED requests
          ELSE IF EsvHasPassage(out)
          THEN LET body == The(out.value)
               IN /\ Reply([embeds |-> <<verseEmbed(
                       The(body.passages)[1],
                       IF body.passage_meta # <<>>
                       THEN body.passage_meta[1].canonical ELSE The(vQuery),
                       The(vTranslation))>>])
                  /\ vPc' = "replying"
                  /\ UNCHANGED requests
          ELSE /\ requests' = Append(requests,
                    esvSearchRequest(The(vQuery), None, None))
               /\ vPc' = "esvSearch"
               /\ UNCHANGED vReplies
  /\ UNCHANGED <<rvars, vIn, vPrefs, vRead, vTranslation, vQuery,
                 outsideVerse>>

\* esvSearchRequest settles: handleEsv up to `await fetchPage(0)`
VerseEsvSearchReturns ==
  /\ vPc = "esvSearch"
  /\ \E out \in EsvSearchOutcomes :
       /\ vBackend' = Some([api |-> "esv", step |-> "search", out |-> out])
       /\ IF out.how = "throw"
          THEN /\ Reply(replyError(
                    "There was an error while executing this command!",
                    VerseDetails(The(vQuery), The(vTranslation),
                                 "ESV search request failed.")))
               /\ vPc' = "replying"
               /\ UNCHANGED requests
          ELSE IF Len(EsvResults(out)) = 0
          THEN /\ Reply(replyError("No results found.",
                    VerseDetails(The(vQuery), The(vTranslation), "")))
               /\ vPc' = "replying"
               /\ UNCHANGED requests
          ELSE /\ requests' = Append(requests,
                    esvSearchRequest(The(vQuery), Some(1),
                                     Some(MAX_SEARCH_FIELDS)))
               /\ vPc' = "first"
               /\ UNCHANGED vReplies
  /\ UNCHANGED <<rvars, vIn, vPrefs, vRead, vTranslation, vQuery,
                 outsideVerse>>

\* apiBibleResolveQuery has returned: handleApiBible up to `await
\* fetchPage(0)`
VerseResolveReturns ==
  /\ vPc = "resolve"
  /\ rPc = "done"
  /\ LET result == The(rResult)
         q == The(vQuery)
         t == The(vTranslation)
     IN /\ vBackend' = Some([api |-> "api.bible", step |-> "resolve",
                             out |-> result])
        /\ IF result.error
           THEN /\ Reply(replyError(
                     "There was an error while executing this command!",
                     VerseDetails(q, t, "api.bible request failed.")))
                /\ vPc' = "replying"
                /\ UNCHANGED requests
           ELSE IF result.kind = "empty"
           THEN /\ Reply(replyError("No results found.",
                                     VerseDetails(q, t, "")))
                /\ vPc' = "replying"
                /\ UNCHANGED requests
           ELSE IF result.kind = "passage"
           THEN /\ IF result.text = <<>>
                   THEN Reply(replyError(
                          "Verse found, but could not parse passage content.",
                          VerseDetails(q, t, "Try a different translation.")))
                   ELSE Reply([embeds |-> <<verseEmbed(result.text,
                                              result.reference, t)>>])
                /\ vPc' = "replying"
                /\ UNCHANGED requests
           ELSE IF result.kind = "search"
           THEN /\ requests' = Append(requests,
                     apiBibleSearchRequest(rIn.bibleId, q, DEFAULT_SORT,
                                           Some(MAX_SEARCH_FIELDS), Some(0)))
                /\ vPc' = "first"
                /\ UNCHANGED vReplies
           ELSE /\ Reply(replyError("Unexpected response while searching.",
                                     VerseDetails(q, t, "")))
                /\ vPc' = "replying"
                /\ UNCHANGED requests
  /\ UNCHANGED <<rvars, vIn, vPrefs, vRead, vTranslation, vQuery,
                 outsideVerse>>

\* fetchPage(0) of sendPaginatedSearch settles: the notice, or the public
\* reply with the first page
VerseFirstReturns ==
  /\ vPc = "first"
  /\ LET q == The(vQuery)
         t == The(vTranslation)
         esv == (t = "ESV")
     IN \E out \in (IF esv THEN EsvSearchOutcomes ELSE PagerOutcomes) :
          LET first == IF esv THEN esvFetchPage(out, 0, q, t)
                       ELSE fetchPageOf(apiBibleFetch(out, REQUEST_TIMEOUT_MS),
                                        0, q, t)
              kind == FirstPageKind(first)
              details == VerseDetails(q, t,
                           IF esv THEN "ESV search request failed."
                           ELSE "api.bible search request failed.")
              pages == IF first.totalItems # {}
                       THEN TotalPagesOf(The(first.totalItems),
                                         MAX_SEARCH_FIELDS)
                       ELSE 1
          IN /\ vBackend' = Some([api |-> IF esv THEN "esv" ELSE "api.bible",
                                  step |-> "first", out |-> out])
             /\ IF kind = "error"
                THEN Reply(replyError(
                       "There was an error while executing this command!",
                       details))
                ELSE IF kind = "empty"
                THEN Reply(replyError("No results found.", details))
                ELSE Reply([embeds |-> <<first.embed>>,
                            components |-> IF pages > 1
                                           THEN <<buildRow(0, pages)>>
                                           ELSE <<>>])
  /\ vPc' = "replying"
  /\ UNCHANGED <<requests, rvars, vIn, vPrefs, vRead, vTranslation, vQuery,
                 outsideVerse>>

\* the reply execute made settles: resolved, execute returns; rejected
\* (the interaction token is no longer valid, the request failed), execute
\* rejects and the catch block of the InteractionCreate handler runs up to
\* its await
VerseReplySettles ==
  /\ vPc = "replying"
  /\ \/ /\ vPc' = "done"
        /\ UNCHANGED vReplies
     \/ /\ InteractionCatch
        /\ vPc' = "catching"
  /\ UNCHANGED <<requests, rvars, vIn, vPrefs, vRead, vTranslation, vQuery,
                 vBackend, outsideVerse>>

\* the reply of the catch block settles: resolved, the handler returns;
\* rejected, the handler's promise rejects and nobody handles it
VerseCatchSettles ==
  /\ vPc = "catching"
  /\ vPc' \in {"caught", "unhandled"}
  /\ UNCHANGED <<requests, rvars, vIn, vPrefs, vRead, vTranslation, vQuery,
                 vBackend, vReplies, outsideVerse>>

InitVerse ==
  /\ apiKey \in BOOLEAN
  /\ requests = <<>>
  /\ ResolveIdle
  /\ PagerIdle
  /\ ClientIdle
  /\ FunctionsIdle
  /\ DailyIdle
  /\ SetIdle
  /\ uDb \in BOOLEAN
  /\ \E d \in OwnerDocs :
       uStore = [u \in Users |-> IF u = Owner /\ d # {} THEN <<The(d)>>
                                 ELSE <<>>]
  /\ uPending = {}
  /\ uIssued = 0
  /\ uLast = None
  /\ uWritten = <<>>
  /\ vIn \in VerseInteractions
  /\ vPc = "init"
  /\ vPrefs = None
  /\ vRead = None
  /\ vTranslation = None
  /\ vQuery = None
  /\ vBackend = None
  /\ vReplies = <<>>

NextVerse ==
  \/ connectMongoResolves
  \/ VerseExecute
  \/ VersePrefsReturn
  \/ VersePreferredReturn
  \/ VerseEsvPassageReturns
  \/ VerseEsvSearchReturns
  \/ ResolveCall
  \/ ResolveSearchReturns
  \/ ResolvePassageReturns
  \/ VerseResolveReturns
  \/ VerseFirstReturns
  \/ VerseReplySettles
  \/ VerseCatchSettles

SpecVerse == InitVerse /\ [][NextVerse]_vars

(***************************************************************************)
(* Functions that keep no state (SpecFunctions): one call of one of them   *)
(***************************************************************************)
MaxTreeNodes == 3
MaxTotal == 31

\* references a passage answer, a passage hit or the query may carry
RefPsalmsUpper == <<"P", "S", "A", "L", "M", "S", " ", "2">>
RefPsalmBare == <<"p", "s", "a", "l", "m">>
RefPsalmist == <<"P", "s", "a", "l", "m", "i", "s", "t">>
RefPsalmUnderscore == <<"P", "s", "a", "l", "m", "_", "1">>
RefPsa == <<"P", "s", "a", " ", "1">>
RefFirstPsalm == <<"1", " ", "P", "s", "a", "l", "m">>
LayoutRefs ==
  {RefPsalm, RefPsalmsUpper, RefPsalmBare, RefPsalmist, RefPsalmUnderscore,
   RefPsa, RefFirstPsalm, RefJohn}

\* a passage of two verses: its text has a line break only when laid out
\* line by line
LayoutContent ==
  << ParaNode(<<"v", "1">>, << VerseNode(<<"1">>), TextNode(<<"a">>),
                               VerseNode(<<"2">>), TextNode(<<"b">>) >>) >>

\* the calls of apiBibleResolveQuery that reach its passage branch with a
\* passage answer: the options, the first passage hit, the passage answer
LayoutCalls ==
  { [fn |-> "PassageResult",
     in |-> [bibleId |-> "de4e12af7f28f599-01", query |-> q, includeRaw |-> FALSE,
             lineByLine |-> l, includeNotes |-> FALSE, includeTitles |-> TRUE,
             includeVerseNumbers |-> TRUE, timeoutMs |-> None],
     passageHit |-> [id |-> "PSA.1", reference |-> hr, verseCount |-> None,
                     copyright |-> None],
     passageRes |-> [error |-> FALSE,
                     data |-> Some([data |-> Some([id |-> None,
                                                   reference |-> dr,
                                                   content |-> Some(LayoutContent),
                                                   verseCount |-> None,
                                                   copyright |-> None])])]] :
      q \in {RefJohn, RefPsalmsUpper},
      l \in {"auto", "on", "off"},
      hr \in {None, Some(RefPsalm), Some(RefJohn)},
      dr \in {None} \cup {Some(r) : r \in LayoutRefs} }

\* apiBibleResolveQuery from the passage answer on: the result it builds
PassageLayoutCall ==
  /\ fCall = {}
  /\ \E c \in LayoutCalls :
       /\ fCall' = Some(c)
       /\ fOut' = Some(PassageResult(c.in, c.passageHit, c.passageRes))
  /\ UNCHANGED outsideFunctions

\* the nodes of the content trees: verse markers (bare, or with their number
\* as a text child), text leaves (with and without leading digits, an empty
\* one, and one with a no-break space before its digits and a CR LF inside)
\* and a paragraph that holds a marker and its text
FlattenNodes ==
  { VerseNode(<<"1">>),
    [VerseNode(<<"1">>) EXCEPT !.items = << TextNode(<<"1">>) >>],
    VerseNode(<<"2">>),
    TextNode(<<"1", "a">>),
    TextNode(<<"4", "0", " ", "d">>),
    TextNode(<<>>),
    TextNode(<<"t">>),
    TextNode(<<"U+00A0", "1", "\r", "\n", "c">>),
    ParaNode(<<"v">>, << VerseNode(<<"2">>), TextNode(<<"2", " ", "b">>) >>) }

FlattenCalls ==
  { [fn |-> "passageContentToText", content |-> c, lineByLine |-> l] :
      c \in {None} \cup {Some(t) : t \in SeqsUpTo(FlattenNodes, MaxTreeNodes)},
      l \in BOOLEAN }

\* passageContentToText(content, { lineByLine })
FlattenCall ==
  /\ fCall = {}
  /\ \E c \in FlattenCalls :
       /\ fCall' = Some(c)
       /\ fOut' = Some(passageContentToText(c.content, c.lineByLine))
  /\ UNCHANGED outsideFunctions

\* the pages of a search with `total` hits: page index `page` holding
\* `count` entries, no more than the total leaves for that page
PageCalls ==
  { c \in [fn : {"sendPaginatedSearch.pages"}, total : 0..MaxTotal,
           page : 0..(MaxTotal \div MAX_SEARCH_FIELDS),
           count : 0..MAX_SEARCH_FIELDS] :
      c.page * MAX_SEARCH_FIELDS + c.count <= c.total }

\* the page count sendPaginatedSearch computes for a total, and the range
\* label and footer buildSearchResultsEmbed gives a page
PagesCall ==
  /\ fCall = {}
  /\ \E c \in PageCalls :
       LET pages == TotalPagesOf(c.total, MAX_SEARCH_FIELDS)
           verses == [i \in 1..c.count |-> [reference |-> "", text |-> <<>>]]
       IN /\ fCall' = Some(c)
          /\ fOut' = Some(
               [totalPages |-> pages,
                range |-> formatRange(c.page * MAX_SEARCH_FIELDS, c.count),
                footer |-> buildSearchResultsEmbed(
                             [query |-> PagerQuery, verses |-> verses,
                              total |-> Some(c.total)],
                             PagerTranslation, c.page, MAX_SEARCH_FIELDS,
                             pages).footer])
  /\ UNCHANGED outsideFunctions

InitFunctions ==
  /\ apiKey = TRUE
  /\ requests = <<>>
  /\ ResolveIdle
  /\ PagerIdle
  /\ ClientIdle
  /\ PrefsIdle
  /\ VerseIdle
  /\ FunctionsIdle
  /\ DailyIdle
  /\ SetIdle

NextFunctions ==
  \/ PassageLayoutCall
  \/ FlattenCall
  \/ PagesCall

SpecFunctions == InitFunctions /\ [][NextFunctions]_vars

(***************************************************************************)
(* helpers/daily_verse.js (SpecDaily).  A Date is the number of hours      *)
(* since 2024-01-01T00:00Z, and Date.UTC counts in hours as well (24      *)
(* stands for the 86400000 ms of a day); the years 2024 (a leap year) to   *)
(* 2026 are covered.                                                       *)
(***************************************************************************)
MaxDailyCalls == 2

EpochYear == 2024
HoursPerDay == 24

IsLeapYear(y) == (y % 4 = 0 /\ y % 100 # 0) \/ y % 400 = 0
DaysInYear(y) == IF IsLeapYear(y) THEN 366 ELSE 365
MonthLengths(y) ==
  << 31, IF IsLeapYear(y) THEN 29 ELSE 28, 31, 30, 31, 30, 31, 31, 30, 31,
     30, 31 >>

RECURSIVE DaysBeforeYear(_)
\* days from the first day of EpochYear to the first day of year y
DaysBeforeYear(y) ==
  IF y <= EpochYear THEN 0 ELSE DaysBeforeYear(y - 1) + DaysInYear(y - 1)

RECURSIVE DaysBeforeMonth(_, _)
\* days of year y before its month m (0-based)
DaysBeforeMonth(y, m) ==
  IF m = 0 THEN 0 ELSE DaysBeforeMonth(y, m - 1) + MonthLengths(y)[m]

\* Date.UTC(year, month, day): the time (since the first day of EpochYear)
\* of the midnight that begins the day
DateUTC(y, m, d) ==
  (DaysBeforeYear(y) + DaysBeforeMonth(y, m) + d - 1) * HoursPerDay

\* date.getUTCFullYear(), getUTCMonth(), getUTCDate()
getUTCFullYear(date) ==
  CHOOSE y \in EpochYear..(EpochYear + 2) :
    /\ DaysBeforeYear(y) <= date \div 24
    /\ date \div 24 < DaysBeforeYear(y + 1)
getUTCMonth(date) ==
  LET y == getUTCFullYear(date)
      doy == date \div 24 - DaysBeforeYear(y)
  IN CHOOSE m \in 0..11 :
       DaysBeforeMonth(y, m) <= doy /\ doy < DaysBeforeMonth(y, m + 1)
getUTCDate(date) ==
  LET y == getUTCFullYear(date)
  IN date \div 24 - DaysBeforeYear(y) - DaysBeforeMonth(y, getUTCMonth(date)) + 1

\* the time whose UTC fields are the local fields of date in a zone 5 hours
\* ahead of UTC
getLocalHours(date) == date + 5

\* mutant of getUtcDayOfYear: the day of the year in local time
getUtcDayOfYear_Local(date) ==
  LET l == getLocalHours(date)
      startOfYear == DateUTC(getUTCFullYear(l), 0, 1)
      current == DateUTC(getUTCFullYear(l), getUTCMonth(l), getUTCDate(l))
  IN (current - startOfYear) \div HoursPerDay

getUtcDayOfYear(date) ==
  LET startOfYear == DateUTC(getUTCFullYear(date), 0, 1)
      current == DateUTC(getUTCFullYear(date), getUTCMonth(date),
                         getUTCDate(date))
  IN (current - startOfYear) \div HoursPerDay

\* loadDailyVerses(): the cached list when there is one; else the file is
\* read and parsed (either may throw) and its daily_bible_verses, taken as
\* [] when it is not an array, is cached and returned unless it is empty
loadDailyVerses(cache, file) ==
  IF cache # {} THEN Returned(The(cache))
  ELSE IF file.kind = "missing"
  THEN Thrown("ENOENT: no such file or directory")
  ELSE IF file.kind = "unparsable"
  THEN Thrown("SyntaxError")
  ELSE IF file.verses = <<>>
  THEN Thrown("daily_verses.json does not contain any verses.")
  ELSE Returned(file.verses)

\* verses[dayIndex % verses.length]
getDailyVerseReference(verses, date) ==
  verses[(getUtcDayOfYear(date) % Len(verses)) + 1]

\* what daily_verses.json may be: no file, text that is not JSON, JSON
\* whose daily_bible_verses is an array (verses; an absent key or a value
\* that is no array count as the empty array)
DailyFiles ==
  { [kind |-> "missing"], [kind |-> "unparsable"] }
  \cup
  { [kind |-> "json", verses |-> v] :
      v \in { <<>>,
              <<"John 3:16", "Psalm 23:1", "Romans 8:28">>,
              <<"Genesis 1:1", "John 1:1", "Psalm 1:1", "Mark 1:1",
                "Luke 1:1", "Acts 1:1", "Jude 1:1">> } }

\* the dates passed: the first and the last hour of 1 Jan, 29 Feb and 1 Mar
\* 2024, 31 Dec 2024, 1 Jan and 1 Mar 2025
DailyDates ==
  { d * 24 + h : d \in {0, 59, 60, 365, 366, 425}, h \in {0, 4, 23} }

\* getDailyVerseReference(date) called on behalf of a user: it returns a
\* reference, or throws what loadDailyVerses throws
DailyCall ==
  /\ Len(dLog) < MaxDailyCalls
  /\ \E u \in Users, date \in DailyDates :
       LET loaded == loadDailyVerses(cachedVerses, dFile)
       IN /\ cachedVerses' = IF loaded.how = "return"
                             THEN Some(loaded.value) ELSE cachedVerses
          /\ dLog' = Append(dLog,
               [user |-> u, date |-> date,
                out |-> IF loaded.how = "return"
                        THEN Returned(getDailyVerseReference(loaded.value,
                                                             date))
                        ELSE loaded])
  /\ UNCHANGED <<dFile, outsideDaily>>

\* daily_verses.json is replaced on disk while the bot runs
DailyFileReplaced ==
  /\ dLog # <<>>
  /\ \E f \in DailyFiles : f # dFile /\ dFile' = f
  /\ UNCHANGED <<cachedVerses, dLog, outsideDaily>>

InitDaily ==
  /\ apiKey = TRUE
  /\ requests = <<>>
  /\ ResolveIdle
  /\ PagerIdle
  /\ ClientIdle
  /\ PrefsIdle
  /\ VerseIdle
  /\ FunctionsIdle
  /\ SetIdle
  /\ dFile \in DailyFiles
  /\ cachedVerses = None
  /\ dLog = <<>>

NextDaily ==
  \/ DailyCall
  \/ DailyFileReplaced

SpecDaily == InitDaily /\ [][NextDaily]_vars

(***************************************************************************)
(* The /preferences set command: execute (preferences.js), one action per  *)
(* stretch between two awaits                                              *)
(***************************************************************************)
MaxSetRuns == 2

formatToggle(value) ==
  IF value = "on" THEN "On" ELSE IF value = "off" THEN "Off" ELSE "Auto"

formatPreferences(preferences) ==
  "Footnotes: **" \o (IF preferences.footnotes THEN "On" ELSE "Off")
  \o "**\nHeadings: **" \o formatToggle(preferences.headings)
  \o "**\nVerse numbers: **"
  \o (IF preferences.verseNumbers THEN "On" ELSE "Off")
  \o "**\nLine by line: **" \o formatToggle(preferences.lineByLine) \o "**"

ChooseOneNotice ==
  [content |-> "Choose at least one preference to update."] @@ EPHEMERAL_REPLY
UnsupportedNotice ==
  [content |->
     "Unsupported translation selected. Please choose a valid option."]
  @@ EPHEMERAL_REPLY
SaveErrorNotice ==
  [content |->
     "There was an error saving your preferences. Please try again later."]
  @@ EPHEMERAL_REPLY
UpdatedNotice(preferred, updated) ==
  [content |->
     "Your preferences have been updated:\nTranslation: **"
     \o (IF isValidTranslation(preferred) THEN The(preferred)
         ELSE DEFAULT_TRANSLATION)
     \o "**\n" \o formatPreferences(updated)] @@ EPHEMERAL_REPLY

\* the interactions the model gives the command: the translation option
\* (absent, two supported codes, one code that is not supported, one name
\* that Object.prototype has) and the four display options
SetInputs ==
  {[userId |-> u, translation |-> t, updates |-> d] :
     u \in Users,
     t \in {None, Some("constructor")} \cup {Some(c) : c \in PrefTranslations},
     d \in DisplayUpdates}

\* typeof ... === 'boolean' / 'string' on one of the five options
hasAnyUpdate(in) ==
  in.translation # {} \/ \E f \in DisplayFields : in.updates[f] # {}

\* the call interaction.reply(payload) of the /preferences command; whether
\* it resolves changes nothing in the store
SetReply(payload) == sReplies' = Append(sReplies, payload)

\* a write function runs up to its `await updateOne(...)`: getDb() throws
\* without a database, else the update document is built (with the date of
\* the call) and sent
SetSend(call) ==
  /\ uIssued' = uIssued + 1
  /\ IF ~uDb THEN UNCHANGED uPending
     ELSE uPending' = uPending \cup
            {[id |-> uIssued + 1, call |-> call,
              update |-> PrefUpdate(call, uIssued + 1), miss |-> FALSE]}

\* the write execute awaits is the one issued last; it is answered when it
\* is no longer with the collection, and it was stored when it is the write
\* the collection applied last (else it was refused, or never sent)
SetWriteAnswered == \A w \in uPending : w.id # uIssued
SetWriteStored == uLast # {} /\ The(uLast).id = uIssued

\* the catch block of the set subcommand
SetCatch == SetReply(SaveErrorNotice)

\* execute up to its first await, or to its return
SetExecute ==
  /\ sPc \in {"idle", "done"}
  /\ sRuns < MaxSetRuns
  /\ sRuns' = sRuns + 1
  /\ \E in \in SetInputs :
       /\ sIn' = Some(in)
       /\ sBefore' = Some(findOne(uStore, in.userId))
       /\ IF ~hasAnyUpdate(in)
          THEN /\ sReplies' = <<ChooseOneNotice>>
               /\ sPc' = "done"
               /\ UNCHANGED <<uPending, uIssued>>
          ELSE IF in.translation # {} /\ The(in.translation) # ""
          THEN IF ~isValidTranslation(in.translation)
               THEN /\ sReplies' = <<UnsupportedNotice>>
                    /\ sPc' = "done"
                    /\ UNCHANGED <<uPending, uIssued>>
               ELSE /\ sReplies' = <<>>
                    /\ SetSend([fn |-> "setPreferredTranslation",
                                userId |-> in.userId,
                                translation |-> The(in.translation)])
                    /\ sPc' = "saveTranslation"
          ELSE /\ sReplies' = <<>>
               /\ SetSend([fn |-> "setVerseDisplayPreferences",
                           userId |-> in.userId, updates |-> in.updates])
               /\ sPc' = "saveDisplay"
  /\ UNCHANGED <<uDb, uStore, uLast, uWritten, outsideSet>>

\* `await setPreferredTranslation(...)` settles and execute runs on to
\* `await setVerseDisplayPreferences(...)`, or to the catch block
SetTranslationSettles ==
  /\ sPc = "saveTranslation"
  /\ SetWriteAnswered
  /\ IF SetWriteStored
     THEN /\ SetSend([fn |-> "setVerseDisplayPreferences",
                      userId |-> The(sIn).userId,
                      updates |-> The(sIn).updates])
          /\ sPc' = "saveDisplay"
          /\ UNCHANGED sReplies
     ELSE /\ SetCatch
          /\ sPc' = "done"
          /\ UNCHANGED <<uPending, uIssued>>
  /\ UNCHANGED <<uDb, uStore, uLast, uWritten, sIn, sBefore, sRuns,
                 outsideSet>>

\* `await setVerseDisplayPreferences(...)` settles and execute runs on to
\* `await getVerseDisplayPreferences(...)`, or to the catch block
SetDisplaySettles ==
  /\ sPc = "saveDisplay"
  /\ SetWriteAnswered
  /\ IF SetWriteStored
     THEN /\ sPc' = "readDisplay"
          /\ UNCHANGED sReplies
     ELSE /\ SetCatch
          /\ sPc' = "done"
  /\ UNCHANGED <<sIn, sBefore, sRuns, uvars, outsideSet>>

\* `await getVerseDisplayPreferences(...)` settles
SetReadDisplaySettles ==
  /\ sPc = "readDisplay"
  /\ \E ok \in BOOLEAN :
       IF ok
       THEN /\ sPc' = "readTranslation"
            /\ UNCHANGED sReplies
       ELSE /\ SetCatch
            /\ sPc' = "done"
  /\ UNCHANGED <<sIn, sBefore, sRuns, uvars, outsideSet>>

\* `await getPreferredTranslation(...)` settles, and the reply is sent.  No
\* write lies between the two reads, so `updated` is read here
SetReadTranslationSettles ==
  /\ sPc = "readTranslation"
  /\ \E ok \in BOOLEAN :
       IF ok
       THEN SetReply(UpdatedNotice(
              getPreferredTranslation(uStore, The(sIn).userId),
              getVerseDisplayPreferences(uStore, The(sIn).userId)))
       ELSE SetCatch
  /\ sPc' = "done"
  /\ UNCHANGED <<sIn, sBefore, sRuns, uvars, outsideSet>>

InitSet ==
  /\ apiKey = TRUE
  /\ requests = <<>>
  /\ ResolveIdle
  /\ PagerIdle
  /\ ClientIdle
  /\ VerseIdle
  /\ FunctionsIdle
  /\ DailyIdle
  /\ SetIdle
  /\ uDb \in BOOLEAN
  /\ uStore = [u \in Users |-> <<>>]
  /\ uPending = {}
  /\ uIssued = 0
  /\ uLast = None
  /\ uWritten = [u \in Users |-> [f \in PrefFields |-> None]]

NextSet ==
  \/ connectMongoResolves
  \/ SetExecute
  \/ PrefUpsertMisses
  \/ PrefApply
  \/ PrefReject
  \/ SetTranslationSettles
  \/ SetDisplaySettles
  \/ SetReadDisplaySettles
  \/ SetReadTranslationSettles

SpecSet == InitSet /\ [][NextSet]_vars

(***************************************************************************)
(* Properties of apiBibleResolveQuery (SpecResolve)                        *)
(***************************************************************************)
\* the body of a 2xx search answer that carries a data object, if any
SearchDataIn(o) ==
  IF o # {} /\ The(o).kind = "response" /\ The(o).ok /\ The(o).json # {}
  THEN The(The(o).json).data ELSE None

\* the search answered with at least one passage hit and one verse hit
BothHitKinds ==
  /\ SearchDataIn(rSearchOut) # {}
  /\ Len(The(SearchDataIn(rSearchOut)).passages) > 0
  /\ Len(The(SearchDataIn(rSearchOut)).verses) > 0

FirstPassageHit == The(SearchDataIn(rSearchOut)).passages[1]

\* the requests issued for passages so far
PassageRequests == {i \in 1..Len(requests) : requests[i].path = "passages"}

\* C1 as stated: a search answer with passage hits and verse hits always
\* gives a result of kind 'passage'.
C1_AlwaysPassage ==
  (rPc = "done" /\ BothHitKinds) =>
    (~The(rResult).error /\ The(rResult).kind = "passage")

\* C1 amended: a search answer with passage hits and verse hits gives a
\* 'passage' result built from the first passage hit, or a Failure when that
\* hit has no id or the passage request failed; it never gives 'search' or
\* 'empty', and the result carries no verse hits.
C1_PassageOrFailure ==
  (rPc = "done" /\ BothHitKinds) =>
    LET r == The(rResult)
    IN /\ "verses" \notin DOMAIN r
       /\ IF r.error
          THEN \/ FirstPassageHit.id = ""
               \/ rPassageOut # {} /\ The(rPassageOut) \in FailedOutcomes
          ELSE /\ r.kind = "passage"
               /\ rHit = Some(FirstPassageHit)
               /\ Cardinality(PassageRequests) = 1
               /\ \A i \in PassageRequests :
                    requests[i].passageId = FirstPassageHit.id

C1_Witness ==
  /\ rPc = "done"
  /\ BothHitKinds
  /\ ~The(rResult).error
  /\ The(rResult).kind = "passage"

\* C2: every finished call returned exactly one of Passage, SearchSet, Empty
\* and Failure; Empty and Failure carry neither a verses list nor a text.
C2_OneOutcome ==
  /\ (rPc = "done") <=> (rResult # {})
  /\ rResult # {} =>
       LET r == The(rResult)
       IN IF r.error
          THEN DOMAIN r \cap {"kind", "verses", "text"} = {}
          ELSE /\ r.kind \in {"passage", "search", "empty"}
               /\ ("text" \in DOMAIN r) <=> (r.kind = "passage")
               /\ ("verses" \in DOMAIN r) <=> (r.kind = "search")

C2_Witness ==
  /\ rPc = "done"
  /\ ~The(rResult).error
  /\ The(rResult).kind = "empty"
  /\ rIn.includeRaw

\* C3: a failed step ends the call with that step's Failure.  A failed search
\* (or a first passage hit without id) issues no passage request; a failed
\* passage request is returned as the result.
C3_FailureShortCircuits ==
  rPc = "done" =>
    LET r == The(rResult)
    IN /\ (rSearchOut = {}) =>
            /\ r.error /\ rResult = rSearchRes /\ requests = <<>>
       /\ (rSearchOut # {} /\ The(rSearchOut) \in FailedOutcomes) =>
            /\ r.error
            /\ rResult = rSearchRes
            /\ The(rSearchOut).kind = "response" =>
                 r.status = Some(The(rSearchOut).status)
            /\ PassageRequests = {}
       /\ (SearchDataIn(rSearchOut) # {}
           /\ Len(The(SearchDataIn(rSearchOut)).passages) > 0
           /\ FirstPassageHit.id = "") =>
            /\ r.error
            /\ r.message = "Search returned a passage without an id."
            /\ PassageRequests = {}
       /\ (rPassageOut # {} /\ The(rPassageOut) \in FailedOutcomes) =>
            /\ r.error
            /\ rResult = rPassageRes
            /\ The(rPassageOut).kind = "response" =>
                 r.status = Some(The(rPassageOut).status)

C3_Witness ==
  /\ rPc = "done"
  /\ rPassageOut # {}
  /\ The(rPassageOut) \in FailedOutcomes
  /\ The(rResult).error

\* C20: a search answer without passage hits and with verse hits gives a
\* 'search' result with one entry per verse hit, in the order of the
\* answer, each holding the hit's id, reference and text and nothing else,
\* with the total, limit and offset of the answer and its query (the
\* caller's query when the answer names none); no passage is requested.
C20_SearchSet ==
  (rPc = "done" /\ SearchDataIn(rSearchOut) # {}
   /\ Len(The(SearchDataIn(rSearchOut)).passages) = 0
   /\ Len(The(SearchDataIn(rSearchOut)).verses) > 0) =>
    LET d == The(SearchDataIn(rSearchOut))
        r == The(rResult)
    IN /\ ~r.error
       /\ r.kind = "search"
       /\ Len(r.verses) = Len(d.verses)
       /\ \A i \in 1..Len(d.verses) :
            r.verses[i] = [id |-> d.verses[i].id,
                           reference |-> d.verses[i].reference,
                           text |-> d.verses[i].text]
       /\ r.total = d.total /\ r.limit = d.limit /\ r.offset = d.offset
       /\ r.query = (IF d.query # {} THEN The(d.query) ELSE rIn.query)
       /\ Len(requests) = 1
       /\ requests[1].path = "search"

C20_Witness ==
  /\ rPc = "done"
  /\ SearchDataIn(rSearchOut) # {}
  /\ The(SearchDataIn(rSearchOut)).passages = <<>>
  /\ Len(The(SearchDataIn(rSearchOut)).verses) = 2
  /\ The(SearchDataIn(rSearchOut)).verses[1].id = "ROM.8.1"
  /\ The(SearchDataIn(rSearchOut)).verses[2].id = "JHN.3.16"
  /\ The(SearchDataIn(rSearchOut)).total = {23}
  /\ The(rResult).kind = "search"
  /\ The(rResult).verses[1].id = "ROM.8.1"

\* the search got a 2xx answer whose body was read as JSON and named neither
\* a passage hit nor a verse hit
SearchReportedNoHits ==
  /\ rSearchOut # {}
  /\ The(rSearchOut).kind = "response"
  /\ The(rSearchOut).ok
  /\ The(rSearchOut).json # {}
  /\ SearchDataIn(rSearchOut) # {} =>
       /\ Len(The(SearchDataIn(rSearchOut)).passages) = 0
       /\ Len(The(SearchDataIn(rSearchOut)).verses) = 0

\* C21 as stated: the result is Empty exactly when the search succeeded and
\* reported neither a passage hit nor a verse hit; a call that failed is
\* never answered with Empty.  (Violated: a 2xx search answer whose body
\* could not be read, res.json() rejecting, is answered with Empty.)
C21_EmptyIffNoHits ==
  rPc = "done" =>
    ((~The(rResult).error /\ The(rResult).kind = "empty")
       <=> SearchReportedNoHits)

(***************************************************************************)
(* Properties of the search pager (SpecPager)                              *)
(***************************************************************************)
\* a collector exists (running or ended)
HasPager == pPc \in {"active", "ended"}

\* the buttons on the message
Buttons == IF message = {} \/ The(message).components = <<>> THEN <<>>
           ELSE The(message).components[1]

\* C4: updatePage calls of one pager run one at a time: an interaction
\* collected while an earlier fetchPage is in flight waits for it.
C4_OneAtATime == Len(pending) <= 1

\* C5: with a known total the page index lies in 0 .. totalPages-1 for the
\* totalPages the pager holds.
C5_PageInRange ==
  (HasPager /\ totalItems # {}) => (0 <= page /\ page <= totalPages - 1)

\* C6: once the collector has ended, the buttons on the message are disabled
\* and stay so.
C6_ExpiredStaysDisabled ==
  pPc = "ended" =>
    /\ Buttons # <<>>
    /\ \A k \in 1..Len(Buttons) : Buttons[k].disabled

\* C7 as stated: the pager expires after 2 minutes without a transition, so
\* an expired pager had no transition in the last 2 minutes.
C7_InactivityWindow ==
  pPc = "ended" => now - lastCollectAt >= PAGINATION_TIMEOUT_MS

\* what the collector does: it ends when 2 minutes have passed since its
\* creation, whether or not transitions happened since
CollectorWindowFixed ==
  /\ pPc = "ended" => now - createdAt >= PAGINATION_TIMEOUT_MS
  /\ pPc = "active" => now - createdAt <= PAGINATION_TIMEOUT_MS

\* the first fetch failed (locally or on the wire) / brought no entries
FirstFetchFailed ==
  \/ ~apiKey
  \/ firstOut # {} /\ The(firstOut) \in FailedOutcomes
FirstFetchEmpty ==
  /\ firstOut # {}
  /\ The(firstOut) \notin FailedOutcomes
  /\ \/ The(firstOut).json = {}
     \/ The(The(The(firstOut).json).data).verses = <<>>

\* C8: when the first page fetch fails or brings zero entries, no pager is
\* created: the reply is an ephemeral notice without embed and buttons
\* (awaited, then accepted or rejected by Discord), there is no message
\* with a page, and no collector is ever registered.
C8_NoPagerWithoutFirstPage ==
  (pPc \notin {"init", "first"} /\ (FirstFetchFailed \/ FirstFetchEmpty)) =>
    /\ pPc \in {"replying", "done", "thrown"}
    /\ message = None
    /\ pending = <<>> /\ clicks = 0
    /\ Len(requests) <= 1
    /\ DOMAIN The(pReply) = {"content", "flags"}
    /\ The(pReply).flags = "Ephemeral"
    /\ The(pReply).content.content =
         IF FirstFetchFailed
         THEN "There was an error while executing this command!"
         ELSE "No results found."

C8_Witness ==
  /\ pPc = "done"
  /\ FirstFetchEmpty
  /\ The(firstOut).json # {}
  /\ The(The(The(firstOut).json).data).total = Some(23)

\* C9: only Previous/Next interactions of the command's user on this
\* pager's buttons start a fetch or change the page; an interaction
\* nothing handles changes neither.
C9_OnlyOwnerEvents ==
  /\ [](\A k \in 1..Len(pending) :
          /\ pending[k].i.user = Owner
          /\ pending[k].i.customId \in {prevId, nextId})
  /\ [][ /\ (HasPager /\ Len(requests') > Len(requests)) =>
              /\ clicks' = clicks + 1
              /\ Len(pending') = Len(pending) + 1
              /\ pending'[Len(pending')].i.user = Owner
         /\ (HasPager /\ page' # page) =>
              \E k \in 1..Len(pending) :
                /\ pending[k].i.user = Owner
                /\ pending[k].i.customId \in {prevId, nextId}
                /\ page' = pending[k].newPage
                /\ pending' = RemoveAt(pending, k)
         /\ ignored' # ignored =>
              /\ requests' = requests
              /\ page' = page /\ pending' = pending /\ message' = message
       ]_vars

C9_Witness ==
  /\ pPc = "active"
  /\ ignored > 0
  /\ clicks > 0
  /\ page > 0

\* the page a collected interaction asks for, from the page state it finds
ExpectedTarget(customId) ==
  IF customId = prevId
  THEN (IF page = 0 THEN 0 ELSE page - 1)
  ELSE (IF page + 1 > totalPages - 1 THEN totalPages - 1 ELSE page + 1)

\* C10: every collected interaction issues exactly one search request, for
\* the page it targets, also when that page is the one on display or was
\* fetched before; together with the first page there are 1 + clicks requests.
C10_OneFetchPerTransition ==
  /\ [](HasPager => Len(requests) = 1 + clicks)
  /\ [][ clicks' # clicks =>
           LET h == pending'[Len(pending')]
           IN /\ Len(requests') = Len(requests) + 1
              /\ h.newPage = ExpectedTarget(h.i.customId)
              /\ requests'[Len(requests')] =
                   [path |-> "search", bibleId |-> PagerBibleId,
                    query |-> PagerQuery, sort |-> "relevance",
                    limit |-> Some(10),
                    offset |-> Some(h.newPage * 10)]
       ]_vars

C10_Witness ==
  /\ pPc = "active"
  /\ page = 0
  /\ clicks = 2
  /\ pending # <<>>
  /\ pending[Len(pending)].newPage = 0
  /\ \E j \in 2..Len(requests) : requests[j].offset = Some(10)

\* the first fetch brought entries but no total count
FirstPageNoTotal ==
  /\ firstOut # {}
  /\ The(firstOut) \notin FailedOutcomes
  /\ The(firstOut).json # {}
  /\ The(The(The(firstOut).json).data).verses # <<>>
  /\ The(The(The(firstOut).json).data).total = None

\* C11 as stated: a non-empty first page without a total count gets a pager
\* (whose Next is then not clamped).
C11_PagerWithoutTotal ==
  (pPc \notin {"init", "first"} /\ FirstPageNoTotal) => HasPager

\* C11 amended: a non-empty first page without a total count is replied
\* without buttons and without a pager (it is the message once Discord has
\* accepted the reply), and nothing is fetched after it.  A
\* pager exists only with a known total, and every Next it collects asks
\* for a page within 0 .. totalPages-1 of the total pages held when the
\* interaction is collected; a Previous asks for a page from 0 up to the
\* page on display.
C11_NoPagerWithoutTotal ==
  /\ []((pPc \notin {"init", "first"} /\ FirstPageNoTotal) =>
          /\ pPc \in {"replying", "done", "thrown"}
          /\ pReply # None
          /\ The(pReply).components = <<>>
          /\ The(pReply).embeds[1].footer = None
          /\ pPc = "done" => message = pReply
          /\ pPc # "done" => message = None
          /\ Len(requests) = 1
          /\ clicks = 0 /\ pending = <<>>)
  /\ [](HasPager => totalItems # {})
  /\ [][ clicks' # clicks =>
           LET h == pending'[Len(pending')]
           IN /\ 0 <= h.newPage
              /\ h.i.customId = nextId => h.newPage <= totalPages - 1
              /\ h.i.customId = prevId => h.newPage <= page
              /\ requests'[Len(requests')].offset
                   = Some(h.newPage * MAX_SEARCH_FIELDS)
       ]_vars

C11_Witness ==
  /\ pPc = "done"
  /\ FirstPageNoTotal
  /\ message # None
  /\ Len(requests) = 1

\* the fetch of a pager transition has just returned
TransitionReturns == Len(pending') = Len(pending) - 1

\* C28: when the fetch of a pager transition fails, the page index, the
\* total item count, the total page count, the message on display with its
\* buttons and the state of the collector stay as they are, and one
\* ephemeral error notice is sent to the interaction; a fetch that is
\* answered sends no notice.
C28_FailedTransitionFrame ==
  [][ TransitionReturns =>
        IF lastFetch' = Some("failed")
        THEN /\ page' = page
             /\ totalItems' = totalItems
             /\ totalPages' = totalPages
             /\ message' = message
             /\ pPc' = pPc
             /\ Len(notices') = Len(notices) + 1
             /\ SubSeq(notices', 1, Len(notices)) = notices
             /\ notices'[Len(notices')].flags = "Ephemeral"
             /\ notices'[Len(notices')].content.content
                  = "There was an error while executing this command!"
        ELSE notices' = notices
    ]_vars

C28_Witness ==
  /\ pPc = "active"
  /\ lastFetch = Some("failed")
  /\ page = 1
  /\ Len(notices) = 1
  /\ totalItems = Some(23)
  /\ The(message).embeds[1].footer
       = Some("Page 2/3 - Showing 11-11 of 23 results")

(***************************************************************************)
(* Properties of the backend clients (SpecClient)                          *)
(***************************************************************************)
\* the call is one of client B and lacks the credential or an identifier
MissingInput ==
  /\ cIn.fn \in {"apiBibleSearch", "apiBibleGetPassage"}
  /\ \/ ~apiKey
     \/ cIn.bibleId = ""
     \/ cIn.fn = "apiBibleSearch" /\ cIn.query = <<>>
     \/ cIn.fn = "apiBibleGetPassage" /\ cIn.passageId = ""

\* C12: a call of apiBibleSearch or apiBibleGetPassage without credential,
\* bibleId, query or passageId returns a Failure at once: no request goes
\* out, no timer is armed, nothing is awaited.
C12_LocalValidation ==
  (MissingInput /\ cPc # "init") =>
    /\ cPc = "done"
    /\ requests = <<>>
    /\ cTimer = "none" /\ cResp = None /\ cClock = 0
    /\ The(cResult).how = "return"
    /\ The(cResult).value.error
    /\ The(cResult).value.status = None
    /\ The(cResult).value.message =
         IF cIn.bibleId = "" THEN "Missing bibleId."
         ELSE IF cIn.fn = "apiBibleSearch" /\ cIn.query = <<>>
         THEN "Missing query."
         ELSE IF cIn.fn = "apiBibleGetPassage" /\ cIn.passageId = ""
         THEN "Missing passageId."
         ELSE "Missing API_BIBLE_KEY env var."

C12_Witness ==
  /\ cPc = "done"
  /\ cIn.fn = "apiBibleGetPassage"
  /\ cIn.bibleId # "" /\ cIn.passageId # ""
  /\ ~apiKey
  /\ The(cResult).value.error
  /\ requests = <<>>

\* the Failure apiBibleFetch returns / the error esvRequest throws for a
\* timeout
IsTimeoutFailure(res) ==
  IF cIn.fn \in {"apiBibleSearch", "apiBibleGetPassage"}
  THEN /\ res.how = "return"
       /\ res.value.error
       /\ res.value.message =
            "api.bible request timed out after "
              \o ToString(IF cIn.timeoutMs = {} THEN 10000
                          ELSE The(cIn.timeoutMs)) \o "ms"
  ELSE /\ res.how = "throw"
       /\ res.message = "ESV API request timed out after 10000ms"

\* C13: a call of client B whose caller aborted the signal (before or during
\* the call) returns a Failure that is not the timeout Failure.
C13_AbortNotTimeout ==
  (cPc = "done" /\ cAbort = {"signal"}) =>
    /\ The(cResult).how = "return"
    /\ The(cResult).value.error
    /\ ~IsTimeoutFailure(The(cResult))

\* C14: a call whose timer fired before it completed ends with the timeout
\* failure; a call that completed with nothing aborted does not.
C14_TimeoutFailure ==
  cPc = "done" =>
    /\ cAbort = {"timer"} => IsTimeoutFailure(The(cResult))
    /\ cAbort = {} => ~IsTimeoutFailure(The(cResult))

\* C15: a client call sends at most one request, when it starts; once the
\* request is out, whatever ends the attempt ends the call with a result,
\* and nothing is sent again.
C15_NoRetry ==
  /\ [](Len(requests) <= 1)
  /\ []((cPc = "done") <=> (cResult # {}))
  /\ [][ /\ requests' # requests => (cPc = "init" /\ cPc' = "fetch")
         /\ (cPc \in {"fetch", "body"} /\ cPc' \notin {"fetch", "body"}) =>
              (cPc' = "done" /\ requests' = requests)
         /\ cPc = "done" => (cPc' = "done" /\ cResult' = cResult)
       ]_vars

C15_Witness ==
  /\ cPc = "done"
  /\ Len(requests) = 1
  /\ cIn.fn = "esvSearchRequest"
  /\ The(cResult).how = "throw"
  /\ The(cResult).message = "ECONNRESET"

(***************************************************************************)
(* Properties of the preferences store (SpecPrefs)                         *)
(***************************************************************************)
\* the value the record of user u (the document findOne returns) holds
\* for field f, if any
StoredField(u, f) ==
  IF findOne(uStore, u) = {} THEN None
  ELSE LET doc == The(findOne(uStore, u))
       IN IF f = "preferredTranslation" THEN doc.preferredTranslation
          ELSE IF f = "updatedAt" THEN doc.updatedAt
          ELSE IF doc.verseDisplay = {} \/ f \notin DOMAIN The(doc.verseDisplay)
          THEN None
          ELSE Some(The(doc.verseDisplay)[f])

\* C16 as stated: when the collection applies resetVerseDisplayPreferences(u),
\* the record of u (the document the readers find) has no display
\* sub-record afterwards, so that getVerseDisplayPreferences(u) gives the
\* defaults, and its preferred translation is the one it had before.
C16_ResetClearsDisplayOnly ==
  [][ (uLast' # uLast
       /\ The(uLast').call.fn = "resetVerseDisplayPreferences") =>
        LET u == The(uLast').call.userId
        IN /\ findOne(uStore', u) # {}
           /\ The(findOne(uStore', u)).verseDisplay = {}
           /\ getVerseDisplayPreferences(uStore', u) =
                [footnotes |-> FALSE, headings |-> "auto",
                 verseNumbers |-> TRUE, lineByLine |-> "auto"]
           /\ The(findOne(uStore', u)).preferredTranslation =
                (IF findOne(uStore, u) = {} THEN {}
                 ELSE The(findOne(uStore, u)).preferredTranslation)
           /\ getPreferredTranslation(uStore', u) =
                getPreferredTranslation(uStore, u)
    ]_vars

\* C17 as stated: a write for user u changes the record of u only and creates
\* it when missing; whatever the order in which the collection applies the
\* writes, each field of the record of each user (the document the readers
\* find) holds the value of the last write applied to it.
C17_LastWriterWins ==
  /\ [](\A u \in {"user-1", "user-2"} :
          \A f \in {"preferredTranslation", "updatedAt", "footnotes",
                    "headings", "verseNumbers", "lineByLine"} :
            StoredField(u, f) = uWritten[u][f])
  /\ [][ IF uLast' # uLast
         THEN LET u == The(uLast').call.userId
              IN /\ findOne(uStore', u) # {}
                 /\ The(findOne(uStore', u)).userId = u
                 /\ \A v \in {"user-1", "user-2"} \ {u} :
                      uStore'[v] = uStore[v]
         ELSE uStore' = uStore
       ]_vars

(***************************************************************************)
(* Properties of the /verse command (SpecVerse)                            *)
(***************************************************************************)
\* the translation codes the bot supports: ESV and the codes with a bible id
SupportedCodes ==
  {"ESV", "KJV", "NKJV", "NASB", "AMP", "NIV", "NLT", "CSB", "ASV", "GNV",
   "MSG", "GRCTR", "RVR", "NVT", "NTV", "DEUL", "WLC", "FEB", "TSI", "VIE",
   "CES", "TKJV", "IRV"}

\* the translation option resolveTranslation was given, and the query the
\* command works on
ExplicitTranslation ==
  IF vIn.subcommand = {"daily"} THEN {} ELSE vIn.translation
OriginalQuery ==
  IF vIn.subcommand = {"daily"} THEN <<"P", "s", "a", "l", "m", " ", "1">>
  ELSE The(vIn.query)

\* C18: the resolved translation is the explicit one when that is supported
\* (the store is then not read); else the stored preference when the read
\* succeeded and the stored code is supported; else ESV.  It is always a
\* supported code, and a failed read lets the command go on with ESV (to
\* the passage lookup and a backend answer, or to the failure to get the
\* daily reference).
C18_ResolveTranslation ==
  vTranslation # {} =>
    LET t == The(vTranslation)
        explicit == ExplicitTranslation
        stored == IF findOne(uStore, "user-1") = {} THEN {}
                  ELSE The(findOne(uStore, "user-1")).preferredTranslation
    IN /\ t \in SupportedCodes
       /\ IF explicit # {} /\ The(explicit) \in SupportedCodes
          THEN t = The(explicit) /\ vRead = {}
          ELSE /\ vRead # {}
               /\ The(vRead).ok => The(vRead).value = stored
               /\ IF The(vRead).ok /\ stored # {}
                     /\ The(stored) \in SupportedCodes
                  THEN t = The(stored)
                  ELSE t = "ESV"
               /\ ~The(vRead).ok =>
                    /\ vPc \in {"esvPassage", "esvSearch", "first",
                                "replying", "done", "catching", "caught",
                                "unhandled"}
                    /\ vPc = "done" => Len(vReplies) = 1
                    /\ \/ vPc = "esvPassage"
                       \/ vBackend # {}
                       \/ vIn.subcommand = {"daily"} /\ requests = <<>>

\* the handler of the interaction has ended: execute returned, or the catch
\* block returned, or its reply rejected
VerseEnded == vPc \in {"done", "caught", "unhandled"}

\* the replies delivered to the interaction: the calls that resolved
Delivered ==
  IF vPc \in {"done", "caught"} THEN <<vReplies[Len(vReplies)]>> ELSE <<>>

\* the backend answer that decided the reply is a Failure or an Empty
BackendFailureOrEmpty ==
  LET b == The(vBackend)
  IN IF b.api = "esv"
     THEN \/ b.out.how = "throw"
          \/ /\ b.step \in {"search", "first"}
             /\ \/ b.out.value = {}
                \/ The(b.out.value).results \in {{}, {<<>>}}
     ELSE IF b.step = "resolve"
     THEN (IF b.out.error THEN TRUE ELSE b.out.kind = "empty")
     ELSE \/ b.out.kind # "response"
          \/ ~b.out.ok
          \/ b.out.json = {}
          \/ The(The(b.out.json).data).verses = <<>>

\* the command resolved its translation and ended in a Failure, an Empty or
\* an unsupported translation: on such a backend answer, or without any
\* backend answer (the daily reference could not be obtained, or the
\* handler found no bible id for the translation)
EndedInFailureOrEmpty ==
  /\ VerseEnded
  /\ vTranslation # {}
  /\ vBackend # {} => BackendFailureOrEmpty

\* an ephemeral notice without embed that names the original query and the
\* translation
PrivateNotice(payload) ==
  /\ DOMAIN payload = {"content", "flags"}
  /\ payload.flags = "Ephemeral"
  /\ \E i \in 1..Len(payload.content.details) :
       payload.content.details[i] =
         [label |-> "Query", value |-> OriginalQuery]
  /\ \E i \in 1..Len(payload.content.details) :
       payload.content.details[i] =
         [label |-> "Translation", value |-> The(vTranslation)]

\* C19 as stated: a /verse command that ended in a Failure, an Empty or an
\* unsupported translation has delivered one reply, an ephemeral notice
\* without embed that names the original query and the translation.
C19_PrivateNotices ==
  EndedInFailureOrEmpty =>
    /\ Len(Delivered) = 1
    /\ PrivateNotice(Delivered[1])

\* what the code does for the notices of the handlers: every reply a
\* handler makes on a Failure or an Empty backend answer is such a notice,
\* and the handlers never answer 'Unsupported translation' (the code that
\* reaches them is ESV or has an entry, its own or an inherited one, in the
\* table of bible ids)
HandlerNoticesPrivate ==
  /\ (vBackend # {} /\ BackendFailureOrEmpty /\ vReplies # <<>>) =>
       PrivateNotice(vReplies[1])
  /\ \A i \in 1..Len(vReplies) :
       ("content" \in DOMAIN vReplies[i]) =>
         vReplies[i].content.content \in
           {"Please choose a subcommand: search or daily.",
            "There was an error while executing this command!",
            "No results found.",
            "Verse found, but could not parse passage content.",
            "Unexpected response while searching."}

\* the command replied on the answer of the ESV passage lookup
EndedOnEsvPassage ==
  /\ vPc \in {"replying", "done", "catching", "caught", "unhandled"}
  /\ vBackend # {}
  /\ The(vBackend).api = "esv"
  /\ The(vBackend).step = "passage"

\* a request has just been added to the requests issued
Issued(path) ==
  /\ Len(requests') = Len(requests) + 1
  /\ requests'[Len(requests')].path = path

\* C27: for ESV the passage lookup is the first request (none is made when
\* the daily reference cannot be obtained).  A lookup that
\* fails ends the command with an error notice, one that returns a passage
\* ends it with the passage, both without a search request; the first search
\* request is issued when the lookup has returned without a passage.
C27_EsvPassageFirst ==
  /\ [](vTranslation = {"ESV"} =>
          \/ /\ Len(requests) >= 1
             /\ requests[1].path = "esv-passage"
             /\ \A i \in 2..Len(requests) : requests[i].path = "esv-search"
          \/ /\ requests = <<>>
             /\ vPc \in {"catching", "caught", "unhandled"}
             /\ vBackend = {}
             /\ vIn.subcommand = {"daily"})
  /\ [](EndedOnEsvPassage =>
          /\ Len(requests) = 1
          /\ Len(vReplies) >= 1
          /\ vPc \in {"replying", "done"} => Len(vReplies) = 1
          /\ IF The(vBackend).out.how = "throw"
             THEN /\ DOMAIN vReplies[1] = {"content", "flags"}
                  /\ vReplies[1].flags = "Ephemeral"
             ELSE /\ DOMAIN vReplies[1] = {"embeds"}
                  /\ The(vBackend).out.value # {}
                  /\ The(The(vBackend).out.value).passages # {}
                  /\ vReplies[1].embeds[1].description =
                       The(The(The(vBackend).out.value).passages)[1])
  /\ [][ (vBackend' # vBackend /\ The(vBackend').api = "esv"
          /\ The(vBackend').step = "passage") =>
           LET out == The(vBackend').out
               passage == /\ out.how = "return"
                          /\ out.value # {}
                          /\ The(out.value).passages \notin {{}, {<<>>}}
           IN IF out.how = "throw" \/ passage
              THEN /\ requests' = requests
                   /\ vPc' = "replying"
                   /\ Len(vReplies') = 1
              ELSE Issued("esv-search") /\ Len(requests) = 1 ]_vars
  /\ [][ Issued("esv-search") /\ Len(requests) = 1 =>
           /\ vPc = "esvPassage"
           /\ The(vBackend').step = "passage"
           /\ The(vBackend').out.how = "return" ]_vars

C27_Witness ==
  /\ EndedOnEsvPassage
  /\ vPc = "done"
  /\ The(vBackend).out.how = "return"
  /\ Len(requests) = 1
  /\ Len(vReplies) = 1
  /\ "embeds" \in DOMAIN vReplies[1]

\* C29 as stated: a /verse invocation replies to its interaction exactly
\* once, whatever path it took (no subcommand, a passage, search results, an
\* Empty or failed backend answer, an unsupported translation): it never
\* calls reply a second time, it never sends a follow-up, and when it has
\* ended, one reply has been delivered.
C29_ExactlyOneReply ==
  /\ Len(vReplies) <= 1
  /\ VerseEnded => Len(Delivered) = 1
  /\ \A i \in 1..Len(vReplies) : "followUp" \notin DOMAIN vReplies[i]

\* what the code does: execute calls reply once, at its end; the catch
\* block calls it once more when execute threw, which is after a rejected
\* reply or before any; a delivered reply is the last call made
RepliesCalled ==
  /\ vPc \in {"init", "prefs", "preferred", "esvPassage", "esvSearch",
              "resolve", "first"} => vReplies = <<>>
  /\ vPc \in {"replying", "done"} => Len(vReplies) = 1
  /\ vPc \in {"catching", "caught", "unhandled"} => Len(vReplies) \in {1, 2}
  /\ \A i \in 1..Len(vReplies) : "followUp" \notin DOMAIN vReplies[i]

(***************************************************************************)
(* Properties of the functions that keep no state (SpecFunctions)          *)
(***************************************************************************)
\* the reference the passage result carries: passageData?.reference ??
\* passageHit?.reference ?? query, read from the call
ResolvedReference ==
  LET c == The(fCall)
      dr == The(The(c.passageRes.data).data).reference
  IN IF dr # {} THEN The(dr)
     ELSE IF c.passageHit.reference # {} THEN The(c.passageHit.reference)
     ELSE c.in.query

\* the references of LayoutRefs that begin with 'psalm' or 'psalms' and a
\* word boundary
PsalmRefs == {RefPsalm, RefPsalmsUpper, RefPsalmBare}

\* the text of the result has a line break
LaidOutByLine == \E i \in 1..Len(The(fOut).text) : The(fOut).text[i] = "\n"

\* C22: the passage text is laid out line by line, with 'auto', exactly when
\* the resolved reference begins with psalm / psalms (any case) followed by a
\* word boundary, with 'on' always and with 'off' never.
C22_LineByLineLayout ==
  (fCall # {} /\ The(fCall).fn = "PassageResult") =>
    /\ The(fOut).reference = ResolvedReference
    /\ The(fCall).in.lineByLine = "auto" =>
         (LaidOutByLine <=> ResolvedReference \in PsalmRefs)
    /\ The(fCall).in.lineByLine = "on" => LaidOutByLine
    /\ The(fCall).in.lineByLine = "off" => ~LaidOutByLine

C22_Witness ==
  /\ fCall # {}
  /\ The(fCall).fn = "PassageResult"
  /\ The(fCall).in.lineByLine = "auto"
  /\ ResolvedReference = RefPsalmist
  /\ The(fCall).in.query = RefPsalmsUpper
  /\ ~LaidOutByLine

\* the verse markers (k = "marker", v the number) and text leaves
\* (k = "text", v the text) of a content array, in document order
RECURSIVE EventsOf(_)
EventsOf(nodes) ==
  IF nodes = <<>> THEN <<>>
  ELSE LET h == Head(nodes)
       IN (IF h.type = "text" THEN << [k |-> "text", v |-> h.text] >>
           ELSE (IF h.name = "verse" /\ h.attrs.number # <<>>
                 THEN << [k |-> "marker", v |-> h.attrs.number] >>
                 ELSE <<>>) \o EventsOf(h.items))
          \o EventsOf(Tail(nodes))

\* sub occurs in s
Contains(s, sub) ==
  \E i \in 0..(Len(s) - Len(sub)) : SubSeq(s, i + 1, i + Len(sub)) = sub

CountChar(s, c) == Cardinality({i \in 1..Len(s) : s[i] = c})

BeginsWith(s, pre) == Len(s) >= Len(pre) /\ SubSeq(s, 1, Len(pre)) = pre

\* t without its leading digit run (and the blanks after it)
WithoutDigitRun(t) == DropWhile(DropWhile(t, Digits), Spaces)

\* a call of passageContentToText on a content array is under observation
Flattened ==
  /\ fCall # {}
  /\ The(fCall).fn = "passageContentToText"
  /\ The(fCall).content # {}

FlattenEvents == EventsOf(The(The(fCall).content))

Markers == {i \in 1..Len(FlattenEvents) : FlattenEvents[i].k = "marker"}

\* the last marker or non-empty text leaf before event j, 0 if there is none
LastEmitted(j) ==
  LET S == {i \in 1..(j - 1) :
              FlattenEvents[i].k = "marker" \/ FlattenEvents[i].v # <<>>}
  IN IF S = {} THEN 0 ELSE CHOOSE i \in S : \A k \in S : k <= i

\* every marker gives one '[n] ', and the text leaf right after a marker that
\* begins with the marker's number comes out without its leading digit run
OneLabelPerMarker ==
  /\ CountChar(The(fOut), "[") = Cardinality(Markers)
  /\ \A i \in Markers :
       (/\ i < Len(FlattenEvents)
        /\ FlattenEvents[i + 1].k = "text"
        /\ BeginsWith(FlattenEvents[i + 1].v, FlattenEvents[i].v)) =>
         Contains(The(fOut),
                  Trim(VerseLabel(FlattenEvents[i].v)
                         \o WithoutDigitRun(FlattenEvents[i + 1].v)))

\* C23 as stated: one '[n] ' per marker, the leaf right after a marker
\* without its leading digit run, and every text leaf that does not come
\* right after a marker with its leading digits.
C23_StripOnlyAfterMarker ==
  Flattened =>
    /\ OneLabelPerMarker
    /\ \A j \in 1..Len(FlattenEvents) :
         (/\ FlattenEvents[j].k = "text"
          /\ FlattenEvents[j].v # <<>>
          /\ IsDigit(FlattenEvents[j].v[1])
          /\ (j = 1 \/ FlattenEvents[j - 1].k # "marker")) =>
           Contains(The(fOut), FlattenEvents[j].v)

\* C23 amended: one '[n] ' per marker and the leaf right after a marker
\* without its leading digit run; a text leaf keeps its leading digits when
\* a non-empty text leaf came between it and the last marker before it (or
\* no marker came before it), and loses them when only empty text leaves
\* did.
C23_StripAfterMarkerChunk ==
  Flattened =>
    /\ OneLabelPerMarker
    /\ \A j \in 1..Len(FlattenEvents) :
         (/\ FlattenEvents[j].k = "text"
          /\ FlattenEvents[j].v # <<>>
          /\ IsDigit(FlattenEvents[j].v[1])) =>
           IF LastEmitted(j) # 0 /\ FlattenEvents[LastEmitted(j)].k = "marker"
           THEN Contains(The(fOut),
                         Trim(VerseLabel(FlattenEvents[LastEmitted(j)].v)
                                \o WithoutDigitRun(FlattenEvents[j].v)))
           ELSE Contains(The(fOut), FlattenEvents[j].v)

C23_Witness ==
  /\ Flattened
  /\ Len(FlattenEvents) = 3
  /\ FlattenEvents[1] = [k |-> "marker", v |-> <<"1">>]
  /\ FlattenEvents[2] = [k |-> "text", v |-> <<"1", "a">>]
  /\ FlattenEvents[3] = [k |-> "text", v |-> <<"4", "0", " ", "d">>]
  /\ ~The(fCall).lineByLine
  /\ The(fOut) = <<"[", "1", "]", " ", "a", "4", "0", " ", "d", " ">>

\* the places of the text where a newline-separated segment starts
SegmentStarts ==
  IF The(fOut) = <<>> THEN {}
  ELSE {1} \cup {i + 1 : i \in {k \in 1..(Len(The(fOut)) - 1) :
                                  The(fOut)[k] = "\n"}}

\* C24 as stated: with lineByLine the text of a tree with N >= 1 markers has
\* at least N newline-separated segments and each segment begins with
\* '[<number>]'.
C24_EverySegmentLabelled ==
  (Flattened /\ The(fCall).lineByLine /\ Markers # {}) =>
    /\ Cardinality(SegmentStarts) >= Cardinality(Markers)
    /\ \A i \in SegmentStarts :
         /\ The(fOut)[i] = "["
         /\ IsDigit(The(fOut)[i + 1])

\* C24 amended: with lineByLine the text of a tree with N markers has at
\* least N newline-separated segments, and every marker's '[<number>]'
\* begins a segment of its own; text before the first marker makes a
\* segment without a label.
C24_LabelsBeginSegments ==
  (Flattened /\ The(fCall).lineByLine) =>
    /\ Cardinality(SegmentStarts) >= Cardinality(Markers)
    /\ CountChar(The(fOut), "[") = Cardinality(Markers)
    /\ \A i \in 1..Len(The(fOut)) :
         The(fOut)[i] = "[" =>
           /\ i \in SegmentStarts
           /\ IsDigit(The(fOut)[i + 1])

C24_Witness ==
  /\ Flattened
  /\ The(fCall).lineByLine
  /\ Cardinality(Markers) = 2
  /\ FlattenEvents[1] = [k |-> "text", v |-> <<"t">>]
  /\ The(fOut) = <<"t", " ", "\n", "[", "1", "]", " ", "\n",
                   "[", "2", "]", " ">>

\* a call of the page arithmetic is under observation
PagesComputed == fCall # {} /\ The(fCall).fn = "sendPaginatedSearch.pages"

\* C25: for a total >= 0 and page size 10, totalPages is 1 for no hits and
\* otherwise the least number of pages of 10 that hold the total (3 for 23);
\* the range label of page p with c entries is '<10p+1>-<10p+c>', '0' when
\* c = 0, so page 2 of 23 hits is labelled '21-23'; the label of the last
\* page, filled with what is left, ends at the total.
C25_PageArithmetic ==
  PagesComputed =>
    LET c == The(fCall)
        o == The(fOut)
    IN /\ o.totalPages >= 1
       /\ o.totalPages * 10 >= c.total
       /\ (o.totalPages - 1) * 10 < c.total \/ (c.total = 0 /\ o.totalPages = 1)
       /\ c.total = 23 => o.totalPages = 3
       /\ o.range = (IF c.count = 0 THEN "0"
                     ELSE ToString(c.page * 10 + 1) \o "-"
                            \o ToString(c.page * 10 + c.count))
       /\ (c.total = 23 /\ c.page = 2 /\ c.count = 3) =>
            /\ o.range = "21-23"
            /\ o.footer = Some("Page 3/3 - Showing 21-23 of 23 results")
       /\ (c.total > 0 /\ c.page = o.totalPages - 1
           /\ c.count = c.total - c.page * 10) =>
            /\ c.count \in 1..10
            /\ o.range = ToString(c.page * 10 + 1) \o "-" \o ToString(c.total)

C25_Witness ==
  /\ PagesComputed
  /\ The(fCall).total = 23
  /\ The(fCall).page = 2
  /\ The(fCall).count = 3
  /\ The(fOut).totalPages = 3
  /\ The(fOut).range = "21-23"

(***************************************************************************)
(* Properties of the daily verse helper (SpecDaily)                        *)
(***************************************************************************)
\* the 0-based day of the year of a date, by the calendar: 2024 has 366
\* days, 2025 has 365
DayOfYear(date) ==
  IF date \div 24 < 366 THEN date \div 24
  ELSE IF date \div 24 < 731 THEN date \div 24 - 366
  ELSE date \div 24 - 731

\* the calls of getDailyVerseReference that returned a reference
DailyReturns == {i \in 1..Len(dLog) : dLog[i].out.how = "return"}

\* C26: two calls of getDailyVerseReference with dates of the same UTC day
\* that return, return the same reference, the entry of the loaded list at
\* index dayOfYear mod length, whatever the hour, the caller, the number of
\* earlier calls (also calls that threw because the file could not be
\* loaded) and what happened to the file since it was loaded.
C26_DailyDeterminism ==
  /\ \A i, j \in DailyReturns :
       dLog[i].date \div 24 = dLog[j].date \div 24 =>
         dLog[i].out.value = dLog[j].out.value
  /\ \A i \in DailyReturns :
       /\ cachedVerses # {}
       /\ dLog[i].out.value =
            The(cachedVerses)[(DayOfYear(dLog[i].date)
                                 % Len(The(cachedVerses))) + 1]

C26_Witness ==
  /\ Len(dLog) = 2
  /\ dLog[1].date = 59 * 24
  /\ dLog[2].date = 59 * 24 + 23
  /\ dLog[1].user # dLog[2].user
  /\ dLog[1].out = Returned("Romans 8:28")
  /\ dLog[2].out = Returned("Romans 8:28")
  /\ cachedVerses # {}
  /\ dFile # [kind |-> "json", verses |-> The(cachedVerses)]

(***************************************************************************)
(* Properties of the /preferences set command (SpecSet)                    *)
(***************************************************************************)
\* the preferred translation and the display sub-record of a document that
\* may be absent
SavedPreferences(doc) ==
  IF doc = {} THEN [preferredTranslation |-> None, verseDisplay |-> None]
  ELSE [preferredTranslation |-> The(doc).preferredTranslation,
        verseDisplay |-> The(doc).verseDisplay]

\* the invocation ended with a rejection or with the error notice
SetRefused ==
  /\ sPc = "done"
  /\ sReplies \in {<<ChooseOneNotice>>, <<UnsupportedNotice>>,
                   <<SaveErrorNotice>>}

\* C30: /preferences set is all-or-nothing: when it has answered with a
\* rejection (no option given, unsupported translation) or with the error
\* notice, the user's preferred translation and display preferences are
\* the ones stored when the invocation began.
C30_SetAllOrNothing ==
  SetRefused =>
    SavedPreferences(findOne(uStore, The(sIn).userId))
      = SavedPreferences(The(sBefore))

\* what does hold: a rejection changes nothing, and so does an error
\* notice when no write of the invocation was stored
SetRejectionChangesNothing ==
  (sPc = "done" /\ sReplies \in {<<ChooseOneNotice>>, <<UnsupportedNotice>>})
    => findOne(uStore, The(sIn).userId) = The(sBefore)

====
